---- MODULE Spec2Model ----
(***************************************************************************)
(* A model of the synchronous JSON-RPC client of bitcoind-json-rpc:        *)
(* the argument encoder (handle_defaults), the client methods that build   *)
(* parameter arrays, the server-version check, and the cookie-file         *)
(* credential reader.                                                      *)
(*                                                                         *)
(* A JSON value is modelled as a record [t, v]: t is the kind ("null",     *)
(* "str", "num", "arr") and v an integer payload: 0 for null, the          *)
(* identity of the text for a string (0 is the empty string), the value    *)
(* in units of 10^-8 for a number, the identity of the array.              *)
(* Rust indices are 0-based and are kept 0-based in the model;             *)
(* a Rust slice element a[i] is the sequence element a[i + 1].             *)
(***************************************************************************)
EXTENDS Integers, Sequences, FiniteSets, TLC

VARIABLES
    hd_entry,     \* handle_defaults: the contents of args when the call was made
    hd_args,      \* handle_defaults: the caller's args buffer (mutated in place)
    hd_defaults,  \* handle_defaults: the defaults table
    hd_ret,       \* handle_defaults: what the call produced
    cl_client,    \* the Client handle: the version module it was built from
    cl_server,    \* the bitcoind the client is connected to (environment)
    cl_last,      \* the last client method call: inputs, requests sent, outcome
    cl_checks,    \* every (server response, outcome) pair the version checks produced
    au_fs,        \* the file at the cookie path (environment)
    au_auth,      \* the Auth value held by the caller
    au_res,       \* what get_user_pass / new_with_auth returned
    au_reads,     \* how many times the cookie file has been opened
    au_sent,      \* the credentials of the last request sent by the built client
    cv_in,        \* the wire value handed to a conversion
    cv_out,       \* what the conversion returned
    ca_call,      \* Client::call: the invocation (method, args) and what its stages meet
    ca_pc,        \* Client::call: the position of the caller's thread in the body
    ca_log,       \* Client::call: the stages this invocation has run, in order
    ca_resp,      \* Client::call: what send_request returned
    ca_result,    \* Client::call: what the invocation returned
    ca_seen,      \* every (failure kind, Error variant) pair returned so far
    ft_crate,     \* the crate being built
    ft_features,  \* the version features enabled for the build
    ft_build      \* the items of the crate whose cfg holds

hd_vars == <<hd_entry, hd_args, hd_defaults, hd_ret>>

cl_vars == <<cl_client, cl_server, cl_last, cl_checks>>

au_vars == <<au_fs, au_auth, au_res, au_reads, au_sent>>

cv_vars == <<cv_in, cv_out>>

ca_vars == <<ca_call, ca_pc, ca_log, ca_resp, ca_result, ca_seen>>

ft_vars == <<ft_crate, ft_features, ft_build>>

vars == <<hd_entry, hd_args, hd_defaults, hd_ret,
          cl_client, cl_server, cl_last, cl_checks,
          au_fs, au_auth, au_res, au_reads, au_sent,
          cv_in, cv_out,
          ca_call, ca_pc, ca_log, ca_resp, ca_result, ca_seen,
          ft_crate, ft_features, ft_build>>

(***************************************************************************)
(* Bounds of the model.                                                    *)
(***************************************************************************)
\* Longest args / defaults array that is enumerated.
MaxArgs == 4

\* Longest cookie file, in bytes, that is enumerated.
MaxFileLen == 4

(***************************************************************************)
(* JSON values.                                                            *)
(***************************************************************************)
\* serde_json::Value::Null
Null == [t |-> "null", v |-> 0]

\* serde_json::Value::String: the string with identity id; 0 is "".
JStr(id) == [t |-> "str", v |-> id]

\* serde_json::Value::Number: the finite number n * 10^-8.
JNum(n) == [t |-> "num", v |-> n]

\* serde_json::Value::Array: the array with identity id.
JArr(id) == [t |-> "arr", v |-> id]

\* The JSON values argument slots and defaults are drawn from: null, the
\* empty string (the default used by send_to_address) and a number.
JsonValues == {Null, JStr(0), JNum(1)}

\* All arrays of JSON values of length 0..n.
JsonArrays(n) == UNION {[1..k -> JsonValues] : k \in 0..n}

(***************************************************************************)
(* handle_defaults (client_sync/mod.rs).                                   *)
(*                                                                         *)
(* The loop state is a record                                              *)
(*   args   : the buffer, as mutated so far                                *)
(*   first  : first_non_null_optional_idx, -1 for None, else Some(first)   *)
(*   panic  : "" while running, else the panic that ended the call         *)
(***************************************************************************)
NoIdx == -1

PanicAssert == "assertion failed: args.len() >= defaults.len()"

PanicMissingDefault == "Missing default for argument idx"

\* Mutant: the null-default check is dropped, a null default is substituted.
HandleDefaultsBody_NoPanic(st, defaults, i) ==
    LET args_i     == Len(st.args) - 1 - i
        defaults_i == Len(defaults) - 1 - i
    IN  IF st.args[args_i + 1] = Null
        THEN IF st.first # NoIdx
             THEN [st EXCEPT !.args[args_i + 1] = defaults[defaults_i + 1]]
             ELSE st
        ELSE IF st.first = NoIdx
             THEN [st EXCEPT !.first = args_i]
             ELSE st

\* Mutant: a null slot is never backfilled.
HandleDefaultsBody_NoBackfill(st, defaults, i) ==
    LET args_i     == Len(st.args) - 1 - i
        defaults_i == Len(defaults) - 1 - i
    IN  IF st.args[args_i + 1] = Null
        THEN IF st.first # NoIdx /\ defaults[defaults_i + 1] = Null
             THEN [st EXCEPT !.panic = PanicMissingDefault, !.idx = args_i]
             ELSE st
        ELSE IF st.first = NoIdx
             THEN [st EXCEPT !.first = args_i]
             ELSE st

\* Mutant: the default is taken at the loop index i, not at defaults_i.
HandleDefaultsBody_WrongDefault(st, defaults, i) ==
    LET args_i     == Len(st.args) - 1 - i
    IN  IF st.args[args_i + 1] = Null
        THEN IF st.first # NoIdx
             THEN IF defaults[i + 1] = Null
                  THEN [st EXCEPT !.panic = PanicMissingDefault, !.idx = args_i]
                  ELSE [st EXCEPT !.args[args_i + 1] = defaults[i + 1]]
             ELSE st
        ELSE IF st.first = NoIdx
             THEN [st EXCEPT !.first = args_i]
             ELSE st

\* Mutant: a null slot is filled whether or not a non-null one was seen.
HandleDefaultsBody_FillTrailing(st, defaults, i) ==
    LET args_i     == Len(st.args) - 1 - i
        defaults_i == Len(defaults) - 1 - i
    IN  IF st.args[args_i + 1] = Null
        THEN IF defaults[defaults_i + 1] = Null
             THEN IF st.first # NoIdx
                  THEN [st EXCEPT !.panic = PanicMissingDefault, !.idx = args_i]
                  ELSE st
             ELSE [st EXCEPT !.args[args_i + 1] = defaults[defaults_i + 1]]
        ELSE IF st.first = NoIdx
             THEN [st EXCEPT !.first = args_i]
             ELSE st

\* One iteration of for i in 0..defaults.len().
HandleDefaultsBody(st, defaults, i) ==
    LET args_i     == Len(st.args) - 1 - i
        defaults_i == Len(defaults) - 1 - i
    IN  IF st.args[args_i + 1] = Null
        THEN IF st.first # NoIdx
             THEN IF defaults[defaults_i + 1] = Null
                  THEN [st EXCEPT !.panic = PanicMissingDefault, !.idx = args_i]
                  ELSE [st EXCEPT !.args[args_i + 1] = defaults[defaults_i + 1]]
             ELSE st
        ELSE IF st.first = NoIdx
             THEN [st EXCEPT !.first = args_i]
             ELSE st

\* The loop for i in 0..defaults.len(), from iteration i on; a panic ends it.
RECURSIVE HandleDefaultsLoop(_, _, _)
HandleDefaultsLoop(st, defaults, i) ==
    IF i >= Len(defaults) \/ st.panic # ""
    THEN st
    ELSE HandleDefaultsLoop(HandleDefaultsBody(st, defaults, i), defaults, i + 1)

\* Mutant: the slice ends before the rightmost non-null optional slot.
HandleDefaultsReturnLen_OffByOne(first, args_len, defaults_len) ==
    LET required_num == args_len - defaults_len
    IN  IF first # NoIdx THEN first ELSE required_num

\* Mutant: with no optional slot set the whole of args is returned.
HandleDefaultsReturnLen_KeepNulls(first, args_len, defaults_len) ==
    IF first # NoIdx THEN first + 1 ELSE args_len

\* The length of the returned prefix: &args[..i + 1] or &args[..required_num].
HandleDefaultsReturnLen(first, args_len, defaults_len) ==
    LET required_num == args_len - defaults_len
    IN  IF first # NoIdx THEN first + 1 ELSE required_num

\* The whole call.  The result records the buffer after the call (args),
\* and either the panic or the length of the returned prefix of the buffer.
handle_defaults(args, defaults) ==
    IF ~(Len(args) >= Len(defaults))
    THEN [kind |-> "panic", panic |-> PanicAssert, idx |-> NoIdx,
          args |-> args, len |-> 0]
    ELSE LET st == HandleDefaultsLoop(
                       [args |-> args, first |-> NoIdx, panic |-> "", idx |-> NoIdx],
                       defaults, 0)
         IN  IF st.panic # ""
             THEN [kind |-> "panic", panic |-> st.panic, idx |-> st.idx,
                   args |-> st.args, len |-> 0]
             ELSE [kind |-> "slice", panic |-> "", idx |-> NoIdx,
                   args |-> st.args,
                   len |-> HandleDefaultsReturnLen(st.first, Len(args), Len(defaults))]

\* No call of handle_defaults has been made.
NotCalled == [kind |-> "none", panic |-> "", idx |-> NoIdx, len |-> 0]

HdIdle ==
    /\ hd_entry = <<>>
    /\ hd_args = <<>>
    /\ hd_defaults = <<>>
    /\ hd_ret = NotCalled

(***************************************************************************)
(* The client (define_jsonrpc_minreq_client) and the server it talks to.   *)
(*                                                                         *)
(* The transport and the server are external: a request gets a result, a   *)
(* JSON-RPC error object, or no response at all.                           *)
(***************************************************************************)
\* Option::None for an optional integer input.
None == -1

\* The version modules that define a Client with a version check.
Builds == {"v17", "v21", "v22", "v25", "v28"}

\* The $expected_versions each module passes to
\* impl_client_check_expected_server_version.
ExpectedVersions(build) ==
    CASE build = "v17" -> <<170100>>
      [] build = "v21" -> <<210200>>
      [] build = "v22" -> <<220000, 220100>>
      [] build = "v25" -> <<250000, 250100, 250200>>
      [] build = "v28" -> <<280000>>

\* Versions a server may report in getnetworkinfo.version.
ServerVersions == {170100, 220100, 270100, 280000}

\* A server is running, unreachable, or answering every call with a
\* JSON-RPC error object (for example while it is warming up).
ServerStates == {"up", "down", "rpc_error"}

Servers == [state : ServerStates, version : ServerVersions]

\* What the transport hands back for a request to the server.
Respond(server, method) ==
    CASE server.state = "down"      -> [kind |-> "transport_error", version |-> 0]
      [] server.state = "rpc_error" -> [kind |-> "rpc_error", version |-> 0]
      [] server.state = "up" ->
            [kind |-> "result",
             version |-> IF method = "getnetworkinfo" THEN server.version ELSE 0]

\* Result values of the client methods.
Ok(v) == [kind |-> "Ok", value |-> v, got |-> 0, expected |-> <<>>]

\* Error::JsonRpc: the transport failed or the server returned an error object.
ErrJsonRpc == [kind |-> "JsonRpc", value |-> 0, got |-> 0, expected |-> <<>>]

\* Error::ServerVersion(UnexpectedServerVersionError { got, expected }).
ErrServerVersion(got, expected) ==
    [kind |-> "ServerVersion", value |-> 0, got |-> got, expected |-> expected]

\* Client::call: one request with the given params, the response decoded.
call(server, method, args) ==
    LET resp == Respond(server, method)
    IN  [requests |-> <<[method |-> method, params |-> args]>>,
         result   |-> IF resp.kind = "result" THEN Ok(resp.version) ELSE ErrJsonRpc]

\* get_network_info / server_version: the version field of getnetworkinfo.
server_version(server) == call(server, "getnetworkinfo", <<>>)

\* Mutant: only the first expected version is accepted.
Contains_FirstOnly(seq, v) == Len(seq) > 0 /\ seq[1] = v

\* <[usize]>::contains
Contains(seq, v) == \E i \in 1..Len(seq) : seq[i] = v

\* Mutant: a version check that once succeeded on this client is reused.
check_expected_server_version_Cached(build, server) ==
    LET sv == server_version(server)
    IN  [requests |-> sv.requests,
         result   |->
            IF \E c \in cl_checks : c.outcome.kind = "Ok"
            THEN Ok(0)
            ELSE IF sv.result.kind # "Ok"
            THEN sv.result
            ELSE IF ~Contains(ExpectedVersions(build), sv.result.value)
            THEN ErrServerVersion(sv.result.value, ExpectedVersions(build))
            ELSE Ok(0)]

\* check_expected_server_version, as expanded in the module of build.
check_expected_server_version(build, server) ==
    LET sv == server_version(server)
    IN  [requests |-> sv.requests,
         result   |->
            IF sv.result.kind # "Ok"
            THEN sv.result
            ELSE IF ~Contains(ExpectedVersions(build), sv.result.value)
            THEN ErrServerVersion(sv.result.value, ExpectedVersions(build))
            ELSE Ok(0)]

\* send_to_address(address, amount): amount.to_btc() is the amount in
\* satoshi times 10^-8, a finite number.
send_to_address_args(address, amount) == <<JStr(address), JNum(amount)>>

\* The defaults table of send_to_address: &["".into(), "".into()].
send_to_address_defaults == <<JStr(0), JStr(0)>>

send_to_address_params(address, amount) ==
    LET r == handle_defaults(send_to_address_args(address, amount), send_to_address_defaults)
    IN  SubSeq(r.args, 1, r.len)

\* The parameters of the sendtoaddress RPC: "address" amount ( "comment"
\* "comment_to" subtractfeefromamount replaceable conf_target "estimate_mode" ).
SendToAddressRequired == 2
SendToAddressOptional == 6

\* The arrays a client method hands to handle_defaults, none for a method
\* that does not call it.
NoSite == [args |-> <<>>, defaults |-> <<>>]

\* From<Option<f64>> for serde_json::Value.
OptNumIntoJson(opt) == IF opt = None THEN Null ELSE JNum(opt)

\* submit_package(package, max_fee_rate, max_burn_amount): the fee rate is
\* sat/vB (floor of sat/kwu over 250) divided by 100000, the burn amount is
\* to_btc().
submit_package_params(package, max_fee_rate, max_burn_amount) ==
    LET max_fee_rate_btc_kvb ==
            IF max_fee_rate = None THEN None ELSE (max_fee_rate \div 250) * 1000
        max_burn_amount_btc == max_burn_amount
    IN  <<JArr(package), OptNumIntoJson(max_fee_rate_btc_kvb),
          OptNumIntoJson(max_burn_amount_btc)>>

\* Inputs of the client methods.
Addresses == {1, 2}

Amounts == {0, 50000}

Packages == {1, 2}

FeeRates == {0, 250, 2500}

(***************************************************************************)
(* Auth and the cookie file (client_sync/mod.rs).                          *)
(*                                                                         *)
(* A file is a sequence of bytes; a byte is one of the tokens below: "LF"  *)
(* is the newline byte, "CR" the carriage return, "BAD" a byte that is     *)
(* not valid UTF-8, the others are themselves.  A String is a sequence of  *)
(* the text tokens.                                                        *)
(***************************************************************************)
Bytes == {"a", "s", ":", "LF", "CR", "BAD"}

\* All byte sequences of length 0..n.
ByteSeqs(n) == UNION {[1..k -> Bytes] : k \in 0..n}

\* The cookie path names no file that can be opened, or a file with bytes.
Files == {[exists |-> FALSE, bytes |-> <<>>]}
            \cup {[exists |-> TRUE, bytes |-> b] : b \in ByteSeqs(MaxFileLen)}

\* Option<String>
NoneStr == [some |-> FALSE, s |-> <<>>]

SomeStr(str) == [some |-> TRUE, s |-> str]

\* The Auth values: None, UserPass("a", "s"), CookieFile(path).
Auths == {[kind |-> "None", user |-> <<>>, pass |-> <<>>],
          [kind |-> "UserPass", user |-> <<"a">>, pass |-> <<"s">>],
          [kind |-> "CookieFile", user |-> <<>>, pass |-> <<>>]}

\* Results of get_user_pass and new_with_auth.
AuthOk(user, pass) == [kind |-> "Ok", user |-> user, pass |-> pass]

AuthErr(e) == [kind |-> e, user |-> NoneStr, pass |-> NoneStr]

\* BufRead::read_until(b'\n'): the bytes up to and including the first
\* newline, or all of them when there is none.
RECURSIVE ReadUntilNewline(_)
ReadUntilNewline(bytes) ==
    IF bytes = <<>> THEN <<>>
    ELSE IF Head(bytes) = "LF" THEN <<"LF">>
    ELSE <<Head(bytes)>> \o ReadUntilNewline(Tail(bytes))

\* Lines::next: None at end of file, an I/O error when the bytes read are
\* not UTF-8, else the line without its trailing "\n" or "\r\n".
LinesNext(bytes) ==
    LET buf  == ReadUntilNewline(bytes)
        n    == Len(buf)
        pop1 == IF n > 0 /\ buf[n] = "LF" THEN SubSeq(buf, 1, n - 1) ELSE buf
        m    == Len(pop1)
        pop2 == IF n > 0 /\ buf[n] = "LF" /\ m > 0 /\ pop1[m] = "CR"
                THEN SubSeq(pop1, 1, m - 1) ELSE pop1
    IN  IF n = 0 THEN [kind |-> "None", line |-> <<>>]
        ELSE IF \E i \in 1..n : buf[i] = "BAD" THEN [kind |-> "Err", line |-> <<>>]
        ELSE [kind |-> "Ok", line |-> pop2]

\* Mutant: str::rfind, the index of the last occurrence.
Find_Last(line, ch) ==
    IF \E i \in 1..Len(line) : line[i] = ch
    THEN (CHOOSE i \in 1..Len(line) :
              line[i] = ch /\ \A j \in (i + 1)..Len(line) : line[j] # ch) - 1
    ELSE None

\* str::find: the 0-based index of the first occurrence, or None.
Find(line, ch) ==
    IF \E i \in 1..Len(line) : line[i] = ch
    THEN (CHOOSE i \in 1..Len(line) :
              line[i] = ch /\ \A j \in 1..(i - 1) : line[j] # ch) - 1
    ELSE None

\* Mutant: a line without ':' is taken as the user with an empty password,
\* and an empty file as an empty user and password.
get_user_pass_Guess(auth, fs) ==
    CASE auth.kind = "None" -> AuthOk(NoneStr, NoneStr)
      [] auth.kind = "UserPass" -> AuthOk(SomeStr(auth.user), SomeStr(auth.pass))
      [] auth.kind = "CookieFile" ->
            IF ~fs.exists THEN AuthErr("Io")
            ELSE LET next == LinesNext(fs.bytes)
                 IN  IF next.kind = "None" THEN AuthOk(SomeStr(<<>>), SomeStr(<<>>))
                     ELSE IF next.kind = "Err" THEN AuthErr("Io")
                     ELSE LET line  == next.line
                              colon == Find(line, ":")
                          IN  IF colon = None THEN AuthOk(SomeStr(line), SomeStr(<<>>))
                              ELSE AuthOk(SomeStr(SubSeq(line, 1, colon)),
                                          SomeStr(SubSeq(line, colon + 2, Len(line))))

\* Auth::get_user_pass
get_user_pass(auth, fs) ==
    CASE auth.kind = "None" -> AuthOk(NoneStr, NoneStr)
      [] auth.kind = "UserPass" -> AuthOk(SomeStr(auth.user), SomeStr(auth.pass))
      [] auth.kind = "CookieFile" ->
            IF ~fs.exists THEN AuthErr("Io")
            ELSE LET next == LinesNext(fs.bytes)
                 IN  IF next.kind = "None" THEN AuthErr("InvalidCookieFile")
                     ELSE IF next.kind = "Err" THEN AuthErr("Io")
                     ELSE LET line  == next.line
                              colon == Find(line, ":")
                          IN  IF colon = None THEN AuthErr("InvalidCookieFile")
                              ELSE AuthOk(SomeStr(SubSeq(line, 1, colon)),
                                          SomeStr(SubSeq(line, colon + 2, Len(line))))

\* The File::open calls get_user_pass makes: one for a cookie file.
CookieOpens(auth) == IF auth.kind = "CookieFile" THEN 1 ELSE 0

\* Mutant: the cookie file is read again for every request.
request_credentials_Reread(client, auth, fs) ==
    LET r == get_user_pass(auth, fs)
    IN  [used |-> TRUE, user |-> r.user, pass |-> r.pass]

\* Client::call on a client built by new_with_auth: the request carries the
\* basic_auth(user, pass) the transport was built with.
request_credentials(client, auth, fs) ==
    [used |-> TRUE, user |-> client.user, pass |-> client.pass]

\* Client::new_with_auth: the credentials the transport is built with.
new_with_auth(auth, fs) ==
    IF auth.kind = "None" THEN AuthErr("MissingUserPassword")
    ELSE get_user_pass(auth, fs)

(***************************************************************************)
(* The json crate: conversion of wire values into model values.           *)
(*                                                                         *)
(* An i64 is its two's complement representation in four 16-bit limbs,     *)
(* most significant first; a u32 is two such limbs.                        *)
(***************************************************************************)
LimbBase == 65536

\* The limbs at and next to the boundaries 0, 2^15 and 2^16 - 1.
Limbs == {0, 1, LimbBase \div 2 - 1, LimbBase \div 2, LimbBase - 1}

I64s == {<<a, b, c, d>> : a \in Limbs, b \in Limbs, c \in Limbs, d \in Limbs}

FieldNames == {"height", "median_time"}

\* i64::is_negative: the sign bit.
is_negative(value) == value[1] >= LimbBase \div 2

\* u32::try_from(i64): the value when it is in 0 ..= u32::MAX.
U32TryFrom(value) ==
    IF value[1] = 0 /\ value[2] = 0
    THEN [ok |-> TRUE, u32 |-> <<value[3], value[4]>>]
    ELSE [ok |-> FALSE, u32 |-> <<0, 0>>]

NumericOk(u) == [kind |-> "Ok", u32 |-> u, value |-> <<0, 0, 0, 0>>, field |-> ""]

NumericError(variant, value, field) ==
    [kind |-> variant, u32 |-> <<0, 0>>, value |-> value, field |-> field]

\* Mutant: no sign test, every failure of try_from is an Overflow.
to_u32_NoSignTest(value, field) ==
    LET r == U32TryFrom(value)
    IN  IF r.ok THEN NumericOk(r.u32) ELSE NumericError("Overflow", value, field)

\* crate::to_u32
to_u32(value, field) ==
    IF is_negative(value) THEN NumericError("Negative", value, field)
    ELSE LET r == U32TryFrom(value)
         IN  IF r.ok THEN NumericOk(r.u32) ELSE NumericError("Overflow", value, field)

(***************************************************************************)
(* Wire values: a JSON field is a record of its JSON type t and content v. *)
(*   int     a JSON integer, as i64 limbs                                  *)
(*   float   a JSON number sign * digits * 10^-scale, the shortest decimal *)
(*           form of the f64 (digits has no trailing zero when scale > 0)  *)
(*   str     a JSON string, by its characters                              *)
(*   opaque  a string handed to a parser of rust-bitcoin whose grammar is  *)
(*           not modelled; only whether the parser accepts it              *)
(*   name    a JSON string in a field whose wire type is an enum           *)
(*   none    a field that is absent or null                                *)
(***************************************************************************)
Absent == [t |-> "none", v |-> <<>>]
WInt(limbs) == [t |-> "int", v |-> limbs]
WFloat(sign, digits, scale) == [t |-> "float", v |-> <<sign, digits, scale>>]
WStr(chars) == [t |-> "str", v |-> chars]
WOpaque(accepted) == [t |-> "opaque", v |-> <<accepted>>]
WName(name) == [t |-> "name", v |-> <<name>>]
\* The place of a model field that the wire type has no field for.
NoField == [t |-> "nofield", v |-> <<>>]

\* Model values.
MU32(u) == [t |-> "u32", v |-> u]
MSat(sign, sat) == [t |-> "sat", v |-> <<sign, sat>>]
MHash(bytes) == [t |-> "hash", v |-> bytes]
MParsed == [t |-> "parsed", v |-> <<>>]
MVariant(name) == [t |-> "variant", v |-> <<name>>]
\* The softforks map of the model, by the statuses of its entries.
MSoftforks(entries) == [t |-> "softforks", v |-> entries]
MLiteral(value) == [t |-> "literal", v |-> <<value>>]

\* The outcome of converting one field.
FieldOk(v) == [ok |-> TRUE, v |-> v]
FieldErr == [ok |-> FALSE, v |-> Absent]

\* The length of a hash in bytes (32 in the program, scaled down here).
HashLen == 2

HexLower == <<"0", "1", "2", "3", "4", "5", "6", "7", "8", "9", "a", "b", "c", "d", "e", "f">>
HexUpper == <<"0", "1", "2", "3", "4", "5", "6", "7", "8", "9", "A", "B", "C", "D", "E", "F">>

\* The value of a hex digit of either case, None for any other character.
HexVal(c) ==
    IF \E i \in 1..16 : HexLower[i] = c THEN (CHOOSE i \in 1..16 : HexLower[i] = c) - 1
    ELSE IF \E i \in 1..16 : HexUpper[i] = c THEN (CHOOSE i \in 1..16 : HexUpper[i] = c) - 1
    ELSE None

\* Mutant: the hash is displayed in its internal byte order.
DisplayHash_Forward(bytes) ==
    [i \in 1..(2 * HashLen) |->
        LET b == bytes[(i + 1) \div 2]
        IN  IF i % 2 = 1 THEN HexLower[(b \div 16) + 1] ELSE HexLower[(b % 16) + 1]]

\* Display / Serialize of BlockHash and Txid: lowercase hex, last byte first.
DisplayHash(bytes) ==
    [i \in 1..(2 * HashLen) |->
        LET b == bytes[HashLen - (i + 1) \div 2 + 1]
        IN  IF i % 2 = 1 THEN HexLower[(b \div 16) + 1] ELSE HexLower[(b % 16) + 1]]

\* str::parse::<BlockHash>() and str::parse::<Txid>(): exactly 2 * HashLen hex
\* digits, the first pair being the last byte.
ParseHash(chars) ==
    IF Len(chars) # 2 * HashLen THEN FieldErr
    ELSE IF \E i \in 1..Len(chars) : HexVal(chars[i]) = None THEN FieldErr
    ELSE FieldOk(MHash([k \in 1..HashLen |->
             16 * HexVal(chars[2 * (HashLen - k) + 1]) + HexVal(chars[2 * (HashLen - k) + 2])]))

\* Satoshis per bitcoin, as a power of ten.
BtcPrecision == 8

\* Mutant: the float is cast to an integer number of bitcoin.
AmountFromBtc_Cast(f) ==
    IF f[3] > 0 THEN FieldOk(MSat(1, 0)) ELSE FieldOk(MSat(1, f[2]))

\* Amount::from_btc(f64): negative values and values finer than one satoshi
\* are errors.
AmountFromBtc(f) ==
    IF f[1] < 0 THEN FieldErr
    ELSE IF f[3] > BtcPrecision THEN FieldErr
    ELSE FieldOk(MSat(1, f[2] * 10 ^ (BtcPrecision - f[3])))

\* SignedAmount::from_btc(f64)
SignedAmountFromBtc(f) ==
    IF f[3] > BtcPrecision THEN FieldErr
    ELSE FieldOk(MSat(f[1], f[2] * 10 ^ (BtcPrecision - f[3])))

\* A number parsed from hex, by its digits without leading zeros.
MHexNum(digits) == [t |-> "hexnum", v |-> digits]

RECURSIVE StripZeros(_)
StripZeros(digits) ==
    IF Len(digits) > 0 /\ digits[1] = 0 THEN StripZeros(Tail(digits)) ELSE digits

\* The hex digits of a u32 (CompactTarget) and of a U256 (Work).
CompactTargetDigits == 8
WorkDigits == 64

\* from_unprefixed_hex of a type of maxDigits hex digits: the string is not
\* empty, every character is a hex digit, and the number fits the type.
from_unprefixed_hex(chars, maxDigits) ==
    IF Len(chars) = 0 \/ \E i \in 1..Len(chars) : HexVal(chars[i]) = None
    THEN FieldErr
    ELSE LET digits == StripZeros([i \in 1..Len(chars) |-> HexVal(chars[i])])
         IN  IF Len(digits) > maxDigits THEN FieldErr ELSE FieldOk(MHexNum(digits))

\* A fee rate of the model: Option<FeeRate>, in satoshi per 1000 weight units.
MRate(sat_kwu) == [t |-> "rate", v |-> <<sat_kwu>>]

\* The decimal a float displays as: no trailing zero after the point.
RECURSIVE Normalise(_)
Normalise(f) ==
    IF f[3] > 0 /\ f[2] % 10 = 0 THEN Normalise(<<f[1], f[2] \div 10, f[3] - 1>>)
    ELSE f

\* btc_per_kb / 1000_f64
Div1000(f) == Normalise(<<f[1], f[2], f[3] + 3>>)

\* The weight units of a virtual byte, and FeeRate::from_sat_per_vb's factor
\* 1000 / 4 from satoshi per virtual byte to satoshi per 1000 weight units.
WuPerVb == 4
SatVbToSatKwu == 1000 \div WuPerVb

\* btc_per_kb of the json crate: the rate per byte as an Amount, then
\* FeeRate::from_sat_per_vb.
btc_per_kb(f) ==
    LET sats_per_byte == AmountFromBtc(Div1000(f))
    IN  IF sats_per_byte.ok
        THEN FieldOk(MRate(sats_per_byte.v.v[2] * SatVbToSatKwu))
        ELSE FieldErr

\* fee_rate_from_btc_per_kb of the older layout's v17: the satoshi per 1000
\* bytes are taken as satoshi per 1000 weight units.
fee_rate_from_btc_per_kb(f) ==
    LET amount == AmountFromBtc(Normalise(f))
    IN  IF amount.ok THEN FieldOk(MRate(amount.v.v[2])) ELSE FieldErr

\* fee_rate_from_btc_per_kvb of the older layout's v22: sat_kvb / 4.
fee_rate_from_btc_per_kvb(f) ==
    LET amount == AmountFromBtc(Normalise(f))
    IN  IF amount.ok THEN FieldOk(MRate(amount.v.v[2] \div WuPerVb)) ELSE FieldErr

\* The strings serde accepts for the enums of the wire types
\* (rename_all kebab-case, snake_case, lowercase).
EnumVariants(ty) ==
    CASE ty = "ChainTipsStatus" ->
            {"invalid", "headers-only", "valid-headers", "valid-fork", "active"}
      [] ty = "Bip9SoftforkStatus" ->
            {"defined", "started", "locked_in", "active", "failed"}
      [] ty = "GetTransactionDetailCategory" ->
            {"send", "receive", "generate", "immature", "orphan"}

\* Mutant: an unknown string becomes the variant "active" / "send".
DeserializeEnum_Fallback(ty, name) ==
    IF name \in EnumVariants(ty) THEN FieldOk(MVariant(name))
    ELSE IF ty = "GetTransactionDetailCategory" THEN FieldOk(MVariant("send"))
    ELSE FieldOk(MVariant("active"))

\* derive(Deserialize) on an enum, followed by the enum's into_model, a
\* match with one arm per variant: an unknown string is a serde error.
DeserializeEnum(ty, name) ==
    IF name \in EnumVariants(ty) THEN FieldOk(MVariant(name)) ELSE FieldErr

\* One step of an into_model: the conversion conv applied to the wire field.
ConvertSome(conv, field, ty, w) ==
    CASE conv = "hash" -> ParseHash(w.v)
      [] conv = "variant" -> DeserializeEnum(ty, w.v[1])
      [] conv = "drop" -> FieldOk(MSoftforks(<<>>))
      [] conv = "softforks" -> FieldOk(MSoftforks(<<w.v[1]>>))
      [] conv = "literal_zero" -> FieldOk(MLiteral("0"))
      [] conv = "literal_empty" -> FieldOk(MLiteral(""))
      [] conv = "to_u32" ->
            LET r == to_u32(w.v, field)
            IN  IF r.kind = "Ok" THEN FieldOk(MU32(r.u32)) ELSE FieldErr
      [] conv = "amount" -> AmountFromBtc(w.v)
      [] conv = "signed_amount" -> SignedAmountFromBtc(w.v)
      [] conv = "parser" -> IF w.v[1] THEN FieldOk(MParsed) ELSE FieldErr
      [] conv = "pass" -> FieldOk(w)
      [] conv = "compact_target_hex" -> from_unprefixed_hex(w.v, CompactTargetDigits)
      [] conv = "work_hex" -> from_unprefixed_hex(w.v, WorkDigits)
      [] conv = "btc_per_kb" -> btc_per_kb(w.v)
      [] conv = "fee_rate_from_btc_per_kb" -> fee_rate_from_btc_per_kb(w.v)
      [] conv = "fee_rate_from_btc_per_kvb" -> fee_rate_from_btc_per_kvb(w.v)

\* Option::map(..).transpose(): an absent optional field converts to None.
ConvertField(step, w) ==
    IF step.opt /\ w = Absent THEN FieldOk(Absent)
    ELSE ConvertSome(step.conv, step.field, step.ty, w)

\* A step of a converter: the wire field, its declared wire type, the
\* conversion applied, whether the field is optional, and the error variant.
Step(field, ty, conv, opt, variant) ==
    [field |-> field, ty |-> ty, conv |-> conv, opt |-> opt, variant |-> variant]

ConvOk(model, n) ==
    [kind |-> "Ok", variant |-> "", field |-> "", source |-> "",
     evaluated |-> n, model |-> model]

ConvErr(kind, variant, field, n) ==
    [kind |-> kind, variant |-> variant, field |-> field, source |-> "",
     evaluated |-> n, model |-> <<>>]

\* The error type of the conversion of a step.
ParseErrorOf(conv) ==
    CASE conv = "hash" -> "HexToArrayError"
      [] conv = "to_u32" -> "NumericError"
      [] conv \in {"amount", "signed_amount", "btc_per_kb", "fee_rate_from_btc_per_kb",
                   "fee_rate_from_btc_per_kvb"} -> "ParseAmountError"
      [] conv = "parser" -> "ParseError"
      [] conv \in {"compact_target_hex", "work_hex"} -> "UnprefixedHexError"
      [] OTHER -> ""

\* The error of a failed step, map_err(E::Variant)? or a bare ?: the variant
\* of the method's error enum is named after the field and wraps the parse
\* error (Numeric wraps a NumericError, whose field member names the field);
\* a method whose into_model returns the parse error itself (variant "")
\* names no field.
ConversionError(step, n) ==
    [ConvErr("Conversion", step.variant, IF step.variant = "" THEN "" ELSE step.field, n)
        EXCEPT !.source = ParseErrorOf(step.conv)]

\* Every field is converted and the last failure is reported.
RECURSIVE LastErrorFrom(_, _, _, _, _)
LastErrorFrom(steps, wire, i, model, err) ==
    IF i > Len(steps) THEN (IF err.kind = "Ok" THEN ConvOk(model, Len(steps)) ELSE err)
    ELSE LET r == ConvertField(steps[i], wire[i])
         IN  IF r.ok THEN LastErrorFrom(steps, wire, i + 1, Append(model, r.v), err)
             ELSE LastErrorFrom(steps, wire, i + 1, model,
                      ConversionError(steps[i], Len(steps)))

\* The body of an into_model from its i-th step on: each step ends in ?, so
\* the first failure returns its error and the later steps do not run.
RECURSIVE IntoModelFrom(_, _, _, _)
IntoModelFrom(steps, wire, i, model) ==
    IF i > Len(steps) THEN ConvOk(model, Len(steps))
    ELSE LET r == ConvertField(steps[i], wire[i])
         IN  IF r.ok THEN IntoModelFrom(steps, wire, i + 1, Append(model, r.v))
             ELSE ConversionError(steps[i], i)

\* Mutant: the errors of all fields are gathered, the last one wins.
IntoModel_LastError(steps, wire) == LastErrorFrom(steps, wire, 1, <<>>, ConvOk(<<>>, 0))

IntoModel(steps, wire) == IntoModelFrom(steps, wire, 1, <<>>)

\* serde: whether a JSON field deserializes into its declared wire type.
Fits(step, w) ==
    CASE w = Absent -> step.opt
      [] w = NoField -> step.ty = ""
      [] w.t = "int" ->
            CASE step.ty = "i64" -> TRUE
              [] step.ty = "u64" -> ~is_negative(w.v)
              [] step.ty = "u32" -> U32TryFrom(w.v).ok
              [] OTHER -> FALSE
      [] w.t = "name" -> DeserializeEnum(step.ty, w.v[1]).ok
      [] w.t = "float" -> step.ty = "f64"
      [] OTHER -> step.ty = "String"

\* Response::result::<T>() in Client::call: the serde decoding of the JSON
\* result into the wire struct; a field that does not fit is the serde error
\* (labelled Json), which call returns inside Error::JsonRpc.
Deserialize(steps, wire) ==
    IF \E i \in 1..Len(steps) : ~Fits(steps[i], wire[i])
    THEN LET i == CHOOSE i \in 1..Len(steps) : ~Fits(steps[i], wire[i])
         IN  ConvErr("Json", "", steps[i].field, 0)
    ELSE ConvOk(<<>>, 0)

\* A client method followed by into_model on what it returned.
CallThenIntoModel(steps, wire) ==
    LET d == Deserialize(steps, wire)
    IN  IF d.kind = "Ok" THEN IntoModel(steps, wire) ELSE d

\* GetBlockVerbosityOne::into_model, in evaluation order: the let bindings,
\* then the fields of the struct literal.  The infallible fields other than
\* confirmations (weight, version, merkle_root, difficulty) are left out.
GetBlockVerbosityOneSteps ==
    << Step("hash", "String", "hash", FALSE, "Hash"),
       Step("stripped_size", "i64", "to_u32", TRUE, "Numeric"),
       Step("tx", "String", "parser", FALSE, "Tx"),
       Step("median_time", "i64", "to_u32", TRUE, "Numeric"),
       Step("bits", "String", "parser", FALSE, "Bits"),
       Step("chain_work", "String", "parser", FALSE, "ChainWork"),
       Step("previous_block_hash", "String", "hash", TRUE, "PreviousBlockHash"),
       Step("next_block_hash", "String", "hash", TRUE, "NextBlockHash"),
       Step("confirmations", "i64", "pass", FALSE, ""),
       Step("size", "i64", "to_u32", FALSE, "Numeric"),
       Step("height", "i64", "to_u32", FALSE, "Numeric"),
       Step("time", "i64", "to_u32", FALSE, "Numeric"),
       Step("nonce", "i64", "to_u32", FALSE, "Numeric"),
       Step("n_tx", "i64", "to_u32", FALSE, "Numeric") >>

\* GetTransaction::into_model with one entry in details, whose
\* GetTransactionDetail::into_model runs in the loop (errors become Details).
GetTransactionSteps ==
    << Step("amount", "f64", "signed_amount", FALSE, "Amount"),
       Step("fee", "f64", "signed_amount", TRUE, "Fee"),
       Step("txid", "String", "hash", FALSE, "Txid"),
       Step("hex", "String", "parser", FALSE, "Tx"),
       Step("details.address", "String", "parser", FALSE, "Details"),
       Step("details.amount", "f64", "signed_amount", FALSE, "Details"),
       Step("details.fee", "f64", "signed_amount", TRUE, "Details"),
       Step("details.category", "GetTransactionDetailCategory", "variant", FALSE, ""),
       Step("confirmations", "u32", "pass", FALSE, "") >>

\* GetTxOut::into_model
GetTxOutSteps ==
    << Step("best_block", "String", "hash", FALSE, "BestBlock"),
       Step("value", "f64", "amount", FALSE, "Value"),
       Step("script_pubkey.hex", "String", "parser", FALSE, "ScriptPubkey"),
       Step("script_pubkey.address", "String", "parser", FALSE, "Address"),
       Step("confirmations", "i64", "pass", FALSE, "") >>

\* ChainTips::into_model, for the one item of a GetChainTips.
ChainTipsSteps ==
    << Step("height", "i64", "to_u32", FALSE, "Numeric"),
       Step("hash", "String", "hash", FALSE, "Hash"),
       Step("branch_length", "i64", "to_u32", FALSE, "Numeric"),
       Step("status", "ChainTipsStatus", "variant", FALSE, "") >>

\* GetBlockchainInfo::into_model; the softforks are decoded and then dropped:
\* let softforks = BTreeMap::new().
GetBlockchainInfoSteps ==
    << Step("chain", "String", "parser", FALSE, "Chain"),
       Step("best_block_hash", "String", "hash", FALSE, "BestBlockHash"),
       Step("chain_work", "String", "parser", FALSE, "ChainWork"),
       Step("prune_height", "i64", "to_u32", TRUE, "Numeric"),
       Step("prune_target_size", "i64", "to_u32", TRUE, "Numeric"),
       Step("bip9_softforks.status", "Bip9SoftforkStatus", "drop", FALSE, ""),
       Step("blocks", "i64", "to_u32", FALSE, "Numeric"),
       Step("headers", "i64", "to_u32", FALSE, "Numeric"),
       Step("median_time", "i64", "to_u32", FALSE, "Numeric") >>

\* GetBestBlockHash(pub String) and its into_model / block_hash.
GetBestBlockHashSteps == << Step("0", "String", "hash", FALSE, "") >>

\* Client::get_block: the parameters of the getblock request, the hash
\* through into_json and verbosity 0, then GetBlockVerbosityZero::block on
\* the reply.
get_block(hash, reply) ==
    LET params == << WStr(DisplayHash(hash)), WInt(<<0, 0, 0, 0>>) >>
        r == ConvertSome("parser", "0", "String", reply)
    IN  [kind |-> IF r.ok THEN "Ok" ELSE "Conversion", variant |-> "", field |-> "",
         evaluated |-> 1, model |-> <<r.v>>, params |-> params]

\* The fallible steps of the four conversions of a getnetworkinfo result:
\* v17 and v28 of the json crate, v17 and v22 of the older layout.
GetNetworkInfoSteps(conv) ==
    << Step("relay_fee", "f64", conv, FALSE, "RelayFee"),
       Step("incremental_fee", "f64", conv, FALSE, "IncrementalFee") >>

V17GetNetworkInfoSteps == GetNetworkInfoSteps("btc_per_kb")
V28GetNetworkInfoSteps == GetNetworkInfoSteps("btc_per_kb")
\* The older layout's v17 also writes connections_in: 0 and
\* connections_out: 0, which the v17 wire type has no field for.
V17TryFromGetNetworkInfoSteps ==
    GetNetworkInfoSteps("fee_rate_from_btc_per_kb")
        \o << Step("connections_in", "", "literal_zero", FALSE, ""),
              Step("connections_out", "", "literal_zero", FALSE, "") >>
V22TryFromGetNetworkInfoSteps == GetNetworkInfoSteps("fee_rate_from_btc_per_kvb")

\* TryFrom<v17::SendToAddress> for model::SendToAddress of wallet/convert.rs:
\* the txid, and fee_reason: "".to_string().
V17TryFromSendToAddressSteps ==
    << Step("txid", "String", "hash", FALSE, ""),
       Step("fee_reason", "", "literal_empty", FALSE, "") >>

\* TryFrom<v19::GetBlockchainInfo> of v19/blockchain/convert.rs: the entries
\* of json.softforks are inserted into the model's map.
V19TryFromGetBlockchainInfoSteps ==
    << Step("chain", "String", "parser", FALSE, "Chain"),
       Step("best_block_hash", "String", "hash", FALSE, "BestBlockHash"),
       Step("chain_work", "String", "parser", FALSE, "ChainWork"),
       Step("softforks", "Bip9SoftforkStatus", "softforks", FALSE, "") >>

\* GetBlockHeaderVerbose::into_model, in evaluation order.
GetBlockHeaderVerboseSteps ==
    << Step("hash", "String", "hash", FALSE, "Hash"),
       Step("merkle_root", "String", "hash", FALSE, "MerkleRoot"),
       Step("bits", "String", "compact_target_hex", FALSE, "Bits"),
       Step("chain_work", "String", "work_hex", FALSE, "ChainWork"),
       Step("previous_block_hash", "String", "hash", TRUE, "PreviousBlockHash"),
       Step("next_block_hash", "String", "hash", TRUE, "NextBlockHash"),
       Step("height", "i64", "to_u32", FALSE, "Numeric"),
       Step("time", "i64", "to_u32", FALSE, "Numeric") >>

\* The field each step of GetBlockHeaderVerbose::into_model reads: the
\* chain_work step is Work::from_unprefixed_hex(&self.bits).
GetBlockHeaderVerboseReads(wire) == [wire EXCEPT ![4] = wire[3]]

\* get_block_header_verbose followed by into_model.
GetBlockHeaderVerboseIntoModel(wire) ==
    LET d == Deserialize(GetBlockHeaderVerboseSteps, wire)
    IN  IF d.kind = "Ok"
        THEN IntoModel(GetBlockHeaderVerboseSteps, GetBlockHeaderVerboseReads(wire))
        ELSE d

\* GetBalance(pub f64) and its into_model.
GetBalanceSteps == << Step("0", "f64", "amount", FALSE, "") >>

\* GetNewAddress(pub String)
GetNewAddressSteps == << Step("0", "String", "parser", FALSE, "") >>

\* The thread panicked (unwrap or expect on an Err, todo!()).
Panic(field) == ConvErr("Panic", "", field, 0)

\* TryFrom<v17::GetBlockchainInfo> for model::GetBlockchainInfo: todo!().
GetBlockchainInfoTryFrom(wire) == Panic("")

\* Client::best_block_hash: get_blockchain_info()?, then try_into().unwrap().
best_block_hash(wire) ==
    LET d == Deserialize(GetBlockchainInfoSteps, wire)
    IN  IF d.kind # "Ok" THEN d
        ELSE LET r == GetBlockchainInfoTryFrom(wire)
             IN  IF r.kind = "Ok" THEN ConvOk(<<r.model[2]>>, r.evaluated)
                 ELSE Panic(r.field)

\* Client::new_address: get_new_address()?, then Address::from_str of the
\* string with expect("assume the address is valid").
new_address(wire) ==
    LET d == Deserialize(GetNewAddressSteps, wire)
    IN  IF d.kind # "Ok" THEN d
        ELSE LET r == ConvertField(GetNewAddressSteps[1], wire[1])
             IN  IF r.ok THEN ConvOk(<<r.v>>, 1) ELSE Panic("0")

StepsOf(op) ==
    CASE op = "getblock" -> GetBlockVerbosityOneSteps
      [] op = "gettransaction" -> GetTransactionSteps
      [] op = "gettxout" -> GetTxOutSteps
      [] op = "getchaintips" -> ChainTipsSteps
      [] op = "getblockchaininfo" -> GetBlockchainInfoSteps
      [] op = "getbestblockhash" -> GetBestBlockHashSteps
      [] op = "getbalance" -> GetBalanceSteps
      [] op = "getblockheader_verbose" -> GetBlockHeaderVerboseSteps
      [] op = "v17_try_from_sendtoaddress" -> V17TryFromSendToAddressSteps
      [] op = "v19_try_from_getblockchaininfo" -> V19TryFromGetBlockchainInfoSteps
      [] op = "v17_getnetworkinfo" -> V17GetNetworkInfoSteps
      [] op = "v28_getnetworkinfo" -> V28GetNetworkInfoSteps
      [] op = "v17_try_from_getnetworkinfo" -> V17TryFromGetNetworkInfoSteps
      [] op = "v22_try_from_getnetworkinfo" -> V22TryFromGetNetworkInfoSteps

(***************************************************************************)
(* Client::call, stage by stage.  What each stage meets is the            *)
(* environment's: whether the arguments serialize, what the transport      *)
(* does with the request, whether the result fits the wire type.           *)
(***************************************************************************)
\* What an invocation returns: Ok, or the Error variant with the kind of
\* failure behind it.
(***************************************************************************)
(* The version features: the cfg attributes of the regtest crate's         *)
(* client_versions.rs and versions.rs, and of the bitcoind crate's         *)
(* client.rs.                                                              *)
(***************************************************************************)
\* The most features a build input enables one by one.
MaxSelected == 3

\* An item guarded by cfg(all(feature = f, not(feature = the item before))).
Item(feature, client, version) ==
    [feature |-> feature, client |-> client, version |-> version]

\* The items of client_versions.rs and versions.rs, in file order; the first
\* one is guarded by cfg(feature = "28_0") alone.
RegtestItems ==
    << Item("28_0", "v28", "28.0"),
       Item("27_1", "v27", "27.1"),
       Item("27_0", "v27", "27.0"),
       Item("26_2", "v26", "26.2"),
       Item("26_1", "v26", "26.1"),
       Item("26_0", "v26", "26.0"),
       Item("25_2", "v25", "25.2"),
       Item("25_1", "v25", "25.1"),
       Item("25_0", "v25", "25.0"),
       Item("24_2", "v24", "24.2"),
       Item("24_1", "v24", "24.1"),
       Item("24_0_1", "v24", "24.0.1"),
       Item("23_2", "v23", "23.2"),
       Item("23_1", "v23", "23.1"),
       Item("23_0", "v23", "23.0"),
       Item("22_1", "v22", "22.1"),
       Item("22_0", "v22", "22.0"),
       Item("0_21_2", "v21", "0.21.2"),
       Item("0_20_2", "v20", "0.20.2"),
       Item("0_19_1", "v19", "0.19.1"),
       Item("0_18_1", "v18", "0.18.1"),
       Item("0_17_1", "v17", "0.17.1") >>

\* The items of the bitcoind crate's client.rs, in file order; the first one
\* is guarded by cfg(feature = "26_0") alone.  The file has no VERSION.
BitcoindItems ==
    << Item("26_0", "v26", ""),
       Item("25_2", "v25", ""),
       Item("25_1", "v25", ""),
       Item("25_0", "v25", ""),
       Item("24_2", "v24", ""),
       Item("24_1", "v24", ""),
       Item("24_0_1", "v24", ""),
       Item("23_2", "v23", ""),
       Item("23_1", "v23", ""),
       Item("23_0", "v23", ""),
       Item("22_1", "v22", ""),
       Item("22_0", "v22", ""),
       Item("0_21_2", "v21", ""),
       Item("0_20_2", "v20", ""),
       Item("0_19_1", "v19", ""),
       Item("0_18_1", "v18", ""),
       Item("0_17_2", "v17", "") >>

\* The item of the last cfg of client_versions.rs and versions.rs, which
\* holds when no feature is enabled.
NoFeatureItem == Item("", "v28", "28.0")

ItemsOf(crate) == IF crate = "regtest" THEN RegtestItems ELSE BitcoindItems

FeaturesOf(crate) == {ItemsOf(crate)[i].feature : i \in 1..Len(ItemsOf(crate))}

\* The items of a chain whose cfg holds.
ActiveItems(items, features) ==
    {items[i] : i \in {j \in 1..Len(items) :
                        /\ items[j].feature \in features
                        /\ j > 1 => items[j - 1].feature \notin features}}

\* client_versions.rs and versions.rs under a set of features.
regtest(features) ==
    ActiveItems(RegtestItems, features)
        \cup (IF features \cap FeaturesOf("regtest") = {} THEN {NoFeatureItem} ELSE {})

\* The bitcoind crate's client.rs under a set of features.
bitcoind(features) == ActiveItems(BitcoindItems, features)

NotBuilt == {Item("", "none", "none")}

FtIdle == ft_crate = "none" /\ ft_features = {} /\ ft_build = NotBuilt

NoReturn == [kind |-> "none", failure |-> "", variant |-> ""]
CallOk == [kind |-> "Ok", failure |-> "", variant |-> ""]
CallErr(failure, variant) == [kind |-> "Err", failure |-> failure, variant |-> variant]

\* serde_json::value::to_raw_value(args)?: From<serde_json::Error> gives
\* Error::Json.
to_raw_value(inv) ==
    IF inv.encode = "ok" THEN CallOk ELSE CallErr("encode", "Json")

\* Mutant: a failed request is sent once more.
send_request_Retry(inv, log) ==
    [log  |-> IF inv.transport = "transport_error"
              THEN log \o <<"request", "request">>
              ELSE Append(log, "request"),
     resp |-> inv.transport]

\* build_request and send_request(req).map_err(Error::from): one request.
send_request(inv, log) ==
    [log |-> Append(log, "request"), resp |-> inv.transport]

\* Ok(resp?.result()?): a transport error, the error object of the response
\* and a result that does not deserialize are all jsonrpc errors, which
\* From<jsonrpc::error::Error> turns into Error::JsonRpc.
result(inv, resp) ==
    CASE resp = "transport_error" -> CallErr("transport", "JsonRpc")
      [] resp = "rpc_error" -> CallErr("protocol", "JsonRpc")
      [] inv.decode # "ok" -> CallErr("decode", "JsonRpc")
      [] OTHER -> CallOk

(***************************************************************************)
(* The states before any call; each specification below exercises one     *)
(* part of the client and leaves the other parts in these states.         *)
(***************************************************************************)
NoCall ==
    [method |-> "none", unset |-> FALSE, requests |-> <<>>, site |-> NoSite,
     reply |-> [kind |-> "none", version |-> 0], result |-> Ok(0)]

ClIdle ==
    /\ cl_client = [build |-> "v28"]
    /\ cl_server = [state |-> "down", version |-> 280000]
    /\ cl_last = NoCall
    /\ cl_checks = {}

NoAuthCall == [op |-> "none", r |-> AuthErr("none")]

\* No request has been sent.
NoneSent == [used |-> FALSE, user |-> NoneStr, pass |-> NoneStr]

AuIdle ==
    /\ au_fs = [exists |-> FALSE, bytes |-> <<>>]
    /\ au_auth = [kind |-> "None", user |-> <<>>, pass |-> <<>>]
    /\ au_res = NoAuthCall
    /\ au_reads = 0
    /\ au_sent = NoneSent

\* No conversion has run.
NotConverted == [kind |-> "none"]

CvIdle ==
    /\ cv_in = [op |-> "none"]
    /\ cv_out = NotConverted

\* No invocation of call has started.
CaIdle ==
    /\ ca_call = [method |-> "none", args |-> <<>>,
                  encode |-> "ok", transport |-> "result", decode |-> "ok"]
    /\ ca_pc = "idle"
    /\ ca_log = <<>>
    /\ ca_resp = "none"
    /\ ca_result = NoReturn
    /\ ca_seen = {}

(***************************************************************************)
(* The client methods against a server that changes under them.           *)
(***************************************************************************)
InitClient ==
    /\ cl_client \in [build : Builds]
    /\ cl_server \in Servers
    /\ cl_last = NoCall
    /\ cl_checks = {}
    /\ HdIdle
    /\ FtIdle
    /\ AuIdle
    /\ CvIdle
    /\ CaIdle

\* The environment: the server stops, starts, fails or is replaced.
ServerChanges ==
    /\ cl_server' \in Servers \ {cl_server}
    /\ UNCHANGED <<cl_client, cl_last, cl_checks>>
    /\ UNCHANGED <<hd_vars, au_vars, cv_vars, ca_vars, ft_vars>>

CheckExpectedServerVersion ==
    /\ LET r == check_expected_server_version(cl_client.build, cl_server)
           reply == Respond(cl_server, "getnetworkinfo")
       IN  /\ cl_last' = [method |-> "check_expected_server_version", unset |-> FALSE,
                          site |-> NoSite,
                          requests |-> r.requests, reply |-> reply, result |-> r.result]
           /\ cl_checks' = cl_checks \cup {[reply |-> reply, outcome |-> r.result]}
    /\ UNCHANGED <<cl_client, cl_server>>
    /\ UNCHANGED <<hd_vars, au_vars, cv_vars, ca_vars, ft_vars>>

ServerVersion ==
    /\ LET r == server_version(cl_server)
       IN  cl_last' = [method |-> "server_version", unset |-> FALSE, site |-> NoSite,
                       requests |-> r.requests,
                       reply |-> Respond(cl_server, "getnetworkinfo"),
                       result |-> r.result]
    /\ UNCHANGED <<cl_client, cl_server, cl_checks>>
    /\ UNCHANGED <<hd_vars, au_vars, cv_vars, ca_vars, ft_vars>>

\* send_to_address exposes none of the optional parameters of sendtoaddress.
SendToAddress ==
    /\ \E address \in Addresses, amount \in Amounts :
          LET r == call(cl_server, "sendtoaddress",
                        send_to_address_params(address, amount))
          IN  cl_last' = [method |-> "send_to_address", unset |-> TRUE,
                          site |-> [args |-> send_to_address_args(address, amount),
                                    defaults |-> send_to_address_defaults],
                          requests |-> r.requests,
                          reply |-> Respond(cl_server, "sendtoaddress"),
                          result |-> r.result]
    /\ UNCHANGED <<cl_client, cl_server, cl_checks>>
    /\ UNCHANGED <<hd_vars, au_vars, cv_vars, ca_vars, ft_vars>>

\* submit_package is defined for the v28 client only.
SubmitPackage ==
    /\ cl_client.build = "v28"
    /\ \E package \in Packages,
          max_fee_rate \in FeeRates \cup {None},
          max_burn_amount \in Amounts \cup {None} :
          LET r == call(cl_server, "submitpackage",
                        submit_package_params(package, max_fee_rate, max_burn_amount))
          IN  cl_last' = [method |-> "submit_package", site |-> NoSite,
                          unset |-> (max_fee_rate = None /\ max_burn_amount = None),
                          requests |-> r.requests,
                          reply |-> Respond(cl_server, "submitpackage"),
                          result |-> r.result]
    /\ UNCHANGED <<cl_client, cl_server, cl_checks>>
    /\ UNCHANGED <<hd_vars, au_vars, cv_vars, ca_vars, ft_vars>>

NextClient ==
    \/ ServerChanges
    \/ CheckExpectedServerVersion
    \/ ServerVersion
    \/ SendToAddress
    \/ SubmitPackage

SpecClient == InitClient /\ [][NextClient]_vars

(***************************************************************************)
(* Building credentials from every Auth value and every cookie file.       *)
(***************************************************************************)
InitAuth ==
    /\ au_fs \in Files
    /\ au_auth \in Auths
    /\ au_res = NoAuthCall
    /\ au_reads = 0
    /\ au_sent = NoneSent
    /\ HdIdle
    /\ FtIdle
    /\ ClIdle
    /\ CvIdle
    /\ CaIdle

GetUserPass ==
    /\ au_res.op = "none"
    /\ au_res' = [op |-> "get_user_pass", r |-> get_user_pass(au_auth, au_fs)]
    /\ au_reads' = au_reads + CookieOpens(au_auth)
    /\ UNCHANGED <<au_fs, au_auth, au_sent>>
    /\ UNCHANGED <<hd_vars, cl_vars, cv_vars, ca_vars, ft_vars>>

NewWithAuth ==
    /\ au_res.op = "none"
    /\ au_res' = [op |-> "new_with_auth", r |-> new_with_auth(au_auth, au_fs)]
    /\ au_reads' = au_reads + CookieOpens(au_auth)
    /\ UNCHANGED <<au_fs, au_auth, au_sent>>
    /\ UNCHANGED <<hd_vars, cl_vars, cv_vars, ca_vars, ft_vars>>

NextAuth == GetUserPass \/ NewWithAuth

SpecAuth == InitAuth /\ [][NextAuth]_vars

(***************************************************************************)
(* The life of a client built with credentials: the cookie file may change *)
(* or disappear at any time, and the built client sends requests.          *)
(***************************************************************************)
\* What the cookie path may be rewritten to: removed, "s:a", "a:a\n".
Rewrites == {[exists |-> FALSE, bytes |-> <<>>],
             [exists |-> TRUE, bytes |-> <<"s", ":", "a">>],
             [exists |-> TRUE, bytes |-> <<"a", ":", "a", "LF">>]}

FileChanges ==
    /\ au_fs' \in Rewrites \ {au_fs}
    /\ UNCHANGED <<au_auth, au_res, au_reads, au_sent>>
    /\ UNCHANGED <<hd_vars, cl_vars, cv_vars, ca_vars, ft_vars>>

RpcCall ==
    /\ au_res.op = "new_with_auth"
    /\ au_res.r.kind = "Ok"
    /\ au_sent' = request_credentials(au_res.r, au_auth, au_fs)
    /\ UNCHANGED <<au_fs, au_auth, au_res, au_reads>>
    /\ UNCHANGED <<hd_vars, cl_vars, cv_vars, ca_vars, ft_vars>>

NextCookieLife == NewWithAuth \/ FileChanges \/ RpcCall

SpecCookieLife == InitAuth /\ [][NextCookieLife]_vars

(***************************************************************************)
(* The encoder on its own: every args / defaults pair, then the call.      *)
(***************************************************************************)
InitEncode ==
    /\ hd_entry \in JsonArrays(MaxArgs)
    /\ hd_args = hd_entry
    /\ hd_defaults \in JsonArrays(MaxArgs)
    /\ hd_ret = NotCalled
    /\ ClIdle
    /\ FtIdle
    /\ AuIdle
    /\ CvIdle
    /\ CaIdle

CallHandleDefaults ==
    /\ hd_ret.kind = "none"
    /\ LET r == handle_defaults(hd_args, hd_defaults)
       IN  /\ hd_args' = r.args
           /\ hd_ret' = [kind |-> r.kind, panic |-> r.panic, idx |-> r.idx, len |-> r.len]
    /\ UNCHANGED <<hd_entry, hd_defaults>>
    /\ UNCHANGED <<cl_vars, au_vars, cv_vars, ca_vars, ft_vars>>

NextEncode == CallHandleDefaults

SpecEncode == InitEncode /\ [][NextEncode]_vars

(***************************************************************************)
(* Invocations of Client::call, one after the other on one thread.         *)
(***************************************************************************)
CallInputs ==
    [method : {"getblockcount", "sendtoaddress"},
     args : {<<>>, <<JStr(0)>>, <<JStr(0), JNum(1)>>},
     encode : {"ok", "err"},
     transport : {"result", "rpc_error", "transport_error"},
     decode : {"ok", "err"}]

InitCall ==
    /\ ca_call \in CallInputs
    /\ ca_pc = "encode"
    /\ ca_log = <<>>
    /\ ca_resp = "none"
    /\ ca_result = NoReturn
    /\ ca_seen = {}
    /\ HdIdle
    /\ FtIdle
    /\ ClIdle
    /\ AuIdle
    /\ CvIdle

\* What ca_seen holds once r has been returned.
Seen(r) ==
    IF r.kind = "Err"
    THEN ca_seen \cup {[failure |-> r.failure, variant |-> r.variant]}
    ELSE ca_seen

\* let raw = to_raw_value(args)?;
CallEncode ==
    /\ ca_pc = "encode"
    /\ LET r == to_raw_value(ca_call)
       IN  /\ ca_log' = Append(ca_log, "encode")
           /\ IF r.kind = "Ok"
              THEN ca_pc' = "send" /\ UNCHANGED <<ca_result, ca_seen>>
              ELSE ca_pc' = "done" /\ ca_result' = r /\ ca_seen' = Seen(r)
    /\ UNCHANGED <<ca_call, ca_resp>>
    /\ UNCHANGED <<hd_vars, cl_vars, au_vars, cv_vars, ft_vars>>

\* let resp = self.inner.send_request(req).map_err(Error::from);
CallSend ==
    /\ ca_pc = "send"
    /\ LET r == send_request(ca_call, ca_log)
       IN  ca_log' = r.log /\ ca_resp' = r.resp
    /\ ca_pc' = "result"
    /\ UNCHANGED <<ca_call, ca_result, ca_seen>>
    /\ UNCHANGED <<hd_vars, cl_vars, au_vars, cv_vars, ft_vars>>

\* Ok(resp?.result()?): the result is decoded only when there is one.
CallResult ==
    /\ ca_pc = "result"
    /\ LET r == result(ca_call, ca_resp)
       IN  /\ ca_result' = r
           /\ ca_seen' = Seen(r)
           /\ ca_log' = IF ca_resp = "result" THEN Append(ca_log, "decode") ELSE ca_log
    /\ ca_pc' = "done"
    /\ UNCHANGED <<ca_call, ca_resp>>
    /\ UNCHANGED <<hd_vars, cl_vars, au_vars, cv_vars, ft_vars>>

\* The caller invokes call again.
CallAgain ==
    /\ ca_pc = "done"
    /\ ca_call' \in CallInputs
    /\ ca_pc' = "encode"
    /\ ca_log' = <<>>
    /\ ca_resp' = "none"
    /\ ca_result' = NoReturn
    /\ UNCHANGED ca_seen
    /\ UNCHANGED <<hd_vars, cl_vars, au_vars, cv_vars, ft_vars>>

NextCall == CallEncode \/ CallSend \/ CallResult \/ CallAgain

SpecCall == InitCall /\ [][NextCall]_vars

(***************************************************************************)
(* The conversions on their own: every wire value, then its conversion.    *)
(***************************************************************************)
ToU32Inputs == {[op |-> "to_u32", value |-> v, field |-> f] : v \in I64s, f \in FieldNames}

\* The JSON values a server may put in a field: the ones the step accepts
\* and ones it does not.
One == <<0, 0, 0, 1>>
MinusOne == <<LimbBase - 1, LimbBase - 1, LimbBase - 1, LimbBase - 1>>
ZeroHex == [i \in 1..(2 * HashLen) |-> "0"]
BadHex == [i \in 1..(2 * HashLen) |-> IF i = 1 THEN "g" ELSE "0"]

FieldValues(step) ==
    (IF step.opt THEN {Absent} ELSE {})
    \cup
    CASE step.conv = "hash" -> {WStr(ZeroHex), WStr(BadHex)}
      [] step.conv = "parser" -> {WOpaque(TRUE), WOpaque(FALSE)}
      [] step.conv \in {"to_u32", "pass"} -> {WInt(One), WInt(MinusOne)}
      [] step.conv \in {"amount", "signed_amount"} ->
            {WFloat(1, 5, 4), WFloat(-1, 5, 4), WFloat(1, 5, 9)}
      [] step.conv \in {"literal_zero", "literal_empty"} -> {NoField}
      [] step.conv = "compact_target_hex" ->
            {WStr(<<"2", "0", "7", "f", "f", "f", "f", "f">>), WStr(<<"g">>),
             WStr(<<"1", "0", "0", "0", "0", "0", "0", "0", "0">>)}
      [] step.conv = "work_hex" ->
            {WStr(<<"0", "0", "0", "2">>), WStr(<<"g">>), WStr(<<>>),
             WStr(<<"1", "0", "0", "0", "0", "0", "0", "0", "0">>)}
      [] step.conv \in {"variant", "drop", "softforks"} ->
            {WName(n) : n \in EnumVariants(step.ty) \cup {"unknown"}}

\* The values of the i-th field of a method's result.
FV(steps, i) == FieldValues(steps[i])

GetBlockVerbosityOneWires ==
    LET s == GetBlockVerbosityOneSteps
    IN  FV(s, 1) \X FV(s, 2) \X FV(s, 3) \X FV(s, 4) \X FV(s, 5) \X FV(s, 6) \X FV(s, 7)
        \X FV(s, 8) \X FV(s, 9) \X FV(s, 10) \X FV(s, 11) \X FV(s, 12) \X FV(s, 13)
        \X FV(s, 14)

GetTransactionWires ==
    LET s == GetTransactionSteps
    IN  FV(s, 1) \X FV(s, 2) \X FV(s, 3) \X FV(s, 4) \X FV(s, 5) \X FV(s, 6) \X FV(s, 7)
        \X FV(s, 8) \X FV(s, 9)

GetTxOutWires ==
    LET s == GetTxOutSteps
    IN  FV(s, 1) \X FV(s, 2) \X FV(s, 3) \X FV(s, 4) \X FV(s, 5)

ChainTipsWires ==
    LET s == ChainTipsSteps
    IN  FV(s, 1) \X FV(s, 2) \X FV(s, 3) \X FV(s, 4)

GetBlockchainInfoWires ==
    LET s == GetBlockchainInfoSteps
    IN  FV(s, 1) \X FV(s, 2) \X FV(s, 3) \X FV(s, 4) \X FV(s, 5) \X FV(s, 6) \X FV(s, 7)
        \X FV(s, 8) \X FV(s, 9)

\* The fee rates getnetworkinfo answers with, in bitcoin per 1000 bytes:
\* whole numbers of satoshi, a negative rate, a rate finer than one satoshi.
SatPerKb == {0, 1, 999, 1000, 1500, 4000}
FeeValues ==
    {WFloat(1, s, BtcPrecision) : s \in SatPerKb}
        \cup {WFloat(-1, 1000, BtcPrecision), WFloat(1, 5, BtcPrecision + 1)}
GetNetworkInfoWires == FeeValues \X FeeValues
V17TryFromGetNetworkInfoWires == FeeValues \X FeeValues \X {NoField} \X {NoField}
NetworkInfoOps ==
    {"v17_getnetworkinfo", "v28_getnetworkinfo",
     "v17_try_from_getnetworkinfo", "v22_try_from_getnetworkinfo"}

GetBlockHeaderVerboseWires ==
    LET s == GetBlockHeaderVerboseSteps
    IN  FV(s, 1) \X FV(s, 2) \X FV(s, 3) \X FV(s, 4) \X FV(s, 5) \X FV(s, 6) \X FV(s, 7)
        \X FV(s, 8)

V17TryFromSendToAddressWires ==
    LET s == V17TryFromSendToAddressSteps IN FV(s, 1) \X FV(s, 2)

V19TryFromGetBlockchainInfoWires ==
    LET s == V19TryFromGetBlockchainInfoSteps IN FV(s, 1) \X FV(s, 2) \X FV(s, 3) \X FV(s, 4)

\* getbalance answers with a number of bitcoin.
GetBalanceWires == {<<WFloat(1, 5, 4)>>, <<WFloat(-1, 5, 4)>>, <<WFloat(1, 5, 9)>>}

\* getnewaddress answers with a string, an address or not; a number is
\* what a server of another shape could send.
GetNewAddressWires == {<<WOpaque(TRUE)>>, <<WOpaque(FALSE)>>, <<WInt(One)>>}

\* Hashes, from bytes at and between the ends of the byte range.
HashBytes == {0, 1, 171, 255}
Hashes == [1..HashLen -> HashBytes]

\* What getbestblockhash may answer: the text of a hash, the same in upper
\* case, a string with a character that is no hex digit, a short string.
GetBestBlockHashWires ==
    {<<WStr(DisplayHash(h))>> : h \in Hashes}
    \cup {<<WStr([i \in 1..(2 * HashLen) |-> "A"])>>, <<WStr(BadHex)>>, <<WStr(<<"0">>)>>}

InitConvert ==
    /\ CaIdle
    /\ \/ cv_in \in ToU32Inputs
       \/ cv_in \in [op : {"getblock"}, wire : GetBlockVerbosityOneWires]
       \/ cv_in \in [op : {"gettransaction"}, wire : GetTransactionWires]
       \/ cv_in \in [op : {"gettxout"}, wire : GetTxOutWires]
       \/ cv_in \in [op : {"getchaintips"}, wire : ChainTipsWires]
       \/ cv_in \in [op : {"getblockchaininfo"}, wire : GetBlockchainInfoWires]
       \/ cv_in \in [op : {"best_block_hash"}, wire : GetBlockchainInfoWires]
       \/ cv_in \in [op : {"new_address"}, wire : GetNewAddressWires]
       \/ cv_in \in [op : {"getbalance"}, wire : GetBalanceWires]
       \/ cv_in \in [op : NetworkInfoOps \ {"v17_try_from_getnetworkinfo"},
                     wire : GetNetworkInfoWires]
       \/ cv_in \in [op : {"v17_try_from_getnetworkinfo"}, wire : V17TryFromGetNetworkInfoWires]
       \/ cv_in \in [op : {"v17_try_from_sendtoaddress"}, wire : V17TryFromSendToAddressWires]
       \/ cv_in \in [op : {"getblockheader_verbose"}, wire : GetBlockHeaderVerboseWires]
       \/ cv_in \in [op : {"v19_try_from_getblockchaininfo"},
                     wire : V19TryFromGetBlockchainInfoWires]
       \/ cv_in \in [op : {"getbestblockhash"}, wire : GetBestBlockHashWires]
       \/ cv_in \in [op : {"get_block"}, hash : Hashes, reply : {WOpaque(TRUE), WOpaque(FALSE)}]
    /\ cv_out = NotConverted
    /\ HdIdle
    /\ FtIdle
    /\ ClIdle
    /\ AuIdle

ToU32 ==
    /\ cv_in.op = "to_u32"
    /\ cv_out = NotConverted
    /\ cv_out' = to_u32(cv_in.value, cv_in.field)
    /\ UNCHANGED cv_in
    /\ UNCHANGED <<hd_vars, cl_vars, au_vars, ca_vars, ft_vars>>

GetBlockVerbosityOne ==
    /\ cv_in.op = "getblock"
    /\ cv_out = NotConverted
    /\ cv_out' = CallThenIntoModel(GetBlockVerbosityOneSteps, cv_in.wire)
    /\ UNCHANGED cv_in
    /\ UNCHANGED <<hd_vars, cl_vars, au_vars, ca_vars, ft_vars>>

GetTransaction ==
    /\ cv_in.op = "gettransaction"
    /\ cv_out = NotConverted
    /\ cv_out' = CallThenIntoModel(GetTransactionSteps, cv_in.wire)
    /\ UNCHANGED cv_in
    /\ UNCHANGED <<hd_vars, cl_vars, au_vars, ca_vars, ft_vars>>

GetTxOut ==
    /\ cv_in.op = "gettxout"
    /\ cv_out = NotConverted
    /\ cv_out' = CallThenIntoModel(GetTxOutSteps, cv_in.wire)
    /\ UNCHANGED cv_in
    /\ UNCHANGED <<hd_vars, cl_vars, au_vars, ca_vars, ft_vars>>

GetChainTips ==
    /\ cv_in.op = "getchaintips"
    /\ cv_out = NotConverted
    /\ cv_out' = CallThenIntoModel(ChainTipsSteps, cv_in.wire)
    /\ UNCHANGED cv_in
    /\ UNCHANGED <<hd_vars, cl_vars, au_vars, ca_vars, ft_vars>>

GetBlockchainInfo ==
    /\ cv_in.op = "getblockchaininfo"
    /\ cv_out = NotConverted
    /\ cv_out' = CallThenIntoModel(GetBlockchainInfoSteps, cv_in.wire)
    /\ UNCHANGED cv_in
    /\ UNCHANGED <<hd_vars, cl_vars, au_vars, ca_vars, ft_vars>>

BestBlockHash ==
    /\ cv_in.op = "best_block_hash"
    /\ cv_out = NotConverted
    /\ cv_out' = best_block_hash(cv_in.wire)
    /\ UNCHANGED cv_in
    /\ UNCHANGED <<hd_vars, cl_vars, au_vars, ca_vars, ft_vars>>

NewAddress ==
    /\ cv_in.op = "new_address"
    /\ cv_out = NotConverted
    /\ cv_out' = new_address(cv_in.wire)
    /\ UNCHANGED cv_in
    /\ UNCHANGED <<hd_vars, cl_vars, au_vars, ca_vars, ft_vars>>

GetBestBlockHash ==
    /\ cv_in.op = "getbestblockhash"
    /\ cv_out = NotConverted
    /\ cv_out' = CallThenIntoModel(GetBestBlockHashSteps, cv_in.wire)
    /\ UNCHANGED cv_in
    /\ UNCHANGED <<hd_vars, cl_vars, au_vars, ca_vars, ft_vars>>

GetBlock ==
    /\ cv_in.op = "get_block"
    /\ cv_out = NotConverted
    /\ cv_out' = get_block(cv_in.hash, cv_in.reply)
    /\ UNCHANGED cv_in
    /\ UNCHANGED <<hd_vars, cl_vars, au_vars, ca_vars, ft_vars>>

GetBalance ==
    /\ cv_in.op = "getbalance"
    /\ cv_out = NotConverted
    /\ cv_out' = CallThenIntoModel(GetBalanceSteps, cv_in.wire)
    /\ UNCHANGED cv_in
    /\ UNCHANGED <<hd_vars, cl_vars, au_vars, ca_vars, ft_vars>>

V17GetNetworkInfo ==
    /\ cv_in.op = "v17_getnetworkinfo"
    /\ cv_out = NotConverted
    /\ cv_out' = CallThenIntoModel(V17GetNetworkInfoSteps, cv_in.wire)
    /\ UNCHANGED cv_in
    /\ UNCHANGED <<hd_vars, cl_vars, au_vars, ca_vars, ft_vars>>

V28GetNetworkInfo ==
    /\ cv_in.op = "v28_getnetworkinfo"
    /\ cv_out = NotConverted
    /\ cv_out' = CallThenIntoModel(V28GetNetworkInfoSteps, cv_in.wire)
    /\ UNCHANGED cv_in
    /\ UNCHANGED <<hd_vars, cl_vars, au_vars, ca_vars, ft_vars>>

V17TryFromGetNetworkInfo ==
    /\ cv_in.op = "v17_try_from_getnetworkinfo"
    /\ cv_out = NotConverted
    /\ cv_out' = CallThenIntoModel(V17TryFromGetNetworkInfoSteps, cv_in.wire)
    /\ UNCHANGED cv_in
    /\ UNCHANGED <<hd_vars, cl_vars, au_vars, ca_vars, ft_vars>>

V22TryFromGetNetworkInfo ==
    /\ cv_in.op = "v22_try_from_getnetworkinfo"
    /\ cv_out = NotConverted
    /\ cv_out' = CallThenIntoModel(V22TryFromGetNetworkInfoSteps, cv_in.wire)
    /\ UNCHANGED cv_in
    /\ UNCHANGED <<hd_vars, cl_vars, au_vars, ca_vars, ft_vars>>

V17TryFromSendToAddress ==
    /\ cv_in.op = "v17_try_from_sendtoaddress"
    /\ cv_out = NotConverted
    /\ cv_out' = CallThenIntoModel(V17TryFromSendToAddressSteps, cv_in.wire)
    /\ UNCHANGED cv_in
    /\ UNCHANGED <<hd_vars, cl_vars, au_vars, ca_vars, ft_vars>>

V19TryFromGetBlockchainInfo ==
    /\ cv_in.op = "v19_try_from_getblockchaininfo"
    /\ cv_out = NotConverted
    /\ cv_out' = CallThenIntoModel(V19TryFromGetBlockchainInfoSteps, cv_in.wire)
    /\ UNCHANGED cv_in
    /\ UNCHANGED <<hd_vars, cl_vars, au_vars, ca_vars, ft_vars>>

GetBlockHeaderVerbose ==
    /\ cv_in.op = "getblockheader_verbose"
    /\ cv_out = NotConverted
    /\ cv_out' = GetBlockHeaderVerboseIntoModel(cv_in.wire)
    /\ UNCHANGED cv_in
    /\ UNCHANGED <<hd_vars, cl_vars, au_vars, ca_vars, ft_vars>>

NextConvert ==
    \/ ToU32
    \/ GetBlockHeaderVerbose
    \/ V17TryFromSendToAddress
    \/ V19TryFromGetBlockchainInfo
    \/ V17GetNetworkInfo
    \/ V28GetNetworkInfo
    \/ V17TryFromGetNetworkInfo
    \/ V22TryFromGetNetworkInfo
    \/ GetBalance
    \/ GetBestBlockHash
    \/ GetBlock
    \/ BestBlockHash
    \/ NewAddress
    \/ GetBlockVerbosityOne
    \/ GetTransaction
    \/ GetTxOut
    \/ GetChainTips
    \/ GetBlockchainInfo

SpecConvert == InitConvert /\ [][NextConvert]_vars

(***************************************************************************)
(* Vocabulary of the encoder claims, stated on the call's input            *)
(* (hd_entry, hd_defaults) and its outcome (hd_ret, hd_args).              *)
(***************************************************************************)
\* N, K and the required prefix length N - K.
HdN == Len(hd_entry)

HdK == Len(hd_defaults)

HdRequired == HdN - HdK

\* The call was made with defaults no longer than args.
HdAligned == HdK <= HdN

\* The call has happened (returned or aborted) / has returned a slice.
HdDone == hd_ret.kind # "none"

HdReturned == hd_ret.kind = "slice"

HdAborted == hd_ret.kind = "panic"

\* The returned slice: a prefix of the buffer.
HdSlice == SubSeq(hd_args, 1, hd_ret.len)

\* 0-based indices of the optional slots, and of those non-null on entry.
HdOptional == {i \in 0..(HdN - 1) : i >= HdRequired}

HdSet == {i \in HdOptional : hd_entry[i + 1] # Null}

\* The rightmost optional slot that was non-null on entry (HdSet # {}).
HdRightmost == CHOOSE i \in HdSet : \A j \in HdSet : j <= i

\* The default aligned with optional slot i.
HdDefaultOf(i) == hd_defaults[i - HdRequired + 1]

\* Optional slots null on entry that lie left of the rightmost set one.
HdGaps == {i \in HdOptional : hd_entry[i + 1] = Null /\ \E j \in HdSet : j > i}

\* The length the returned prefix should have.
HdExpectedLen == IF HdSet = {} THEN HdRequired ELSE HdRightmost + 1

(***************************************************************************)
(* Specification of the build: a crate is compiled under a set of version  *)
(* features.                                                               *)
(***************************************************************************)
RECURSIVE SelectedUpTo(_, _)
SelectedUpTo(all, n) ==
    IF n = 0 THEN {{}}
    ELSE LET smaller == SelectedUpTo(all, n - 1)
         IN  smaller \cup {S \cup {f} : S \in smaller, f \in all}

\* The features of the first n items of a chain, newest first.
NewestFeatures(items, n) == {items[i].feature : i \in 1..n}
OldestFeatures(items, n) == {items[i].feature : i \in (Len(items) - n + 1)..Len(items)}

\* The feature sets built: up to MaxSelected features picked freely, the n
\* newest and the n oldest features for every n (all features among them).
FeatureSets(crate) ==
    SelectedUpTo(FeaturesOf(crate), MaxSelected)
        \cup {NewestFeatures(ItemsOf(crate), n) : n \in 0..Len(ItemsOf(crate))}
        \cup {OldestFeatures(ItemsOf(crate), n) : n \in 0..Len(ItemsOf(crate))}

InitFeatures ==
    /\ ft_crate \in {"regtest", "bitcoind"}
    /\ ft_features \in FeatureSets(ft_crate)
    /\ ft_build = NotBuilt
    /\ HdIdle
    /\ ClIdle
    /\ AuIdle
    /\ CvIdle
    /\ CaIdle

BuildRegtest ==
    /\ ft_crate = "regtest"
    /\ ft_build = NotBuilt
    /\ ft_build' = regtest(ft_features)
    /\ UNCHANGED <<ft_crate, ft_features>>
    /\ UNCHANGED <<hd_vars, cl_vars, au_vars, cv_vars, ca_vars>>

BuildBitcoind ==
    /\ ft_crate = "bitcoind"
    /\ ft_build = NotBuilt
    /\ ft_build' = bitcoind(ft_features)
    /\ UNCHANGED <<ft_crate, ft_features>>
    /\ UNCHANGED <<hd_vars, cl_vars, au_vars, cv_vars, ca_vars>>

NextFeatures ==
    \/ BuildRegtest
    \/ BuildBitcoind

SpecFeatures == InitFeatures /\ [][NextFeatures]_vars

(***************************************************************************)
(* C1 (as stated): when handle_defaults returns, the result is the prefix  *)
(* of args of length N-K if no optional slot is non-null and               *)
(* rightmost+1 otherwise, and NO slot (required or optional) before the    *)
(* rightmost non-null optional slot is null in it.                         *)
(***************************************************************************)
C1_AsStated ==
    (HdReturned /\ HdAligned) =>
        /\ hd_ret.len = HdExpectedLen
        /\ hd_ret.len <= HdN
        /\ HdSet # {} => \A j \in 0..(HdRightmost - 1) : HdSlice[j + 1] # Null

(***************************************************************************)
(* C1 (amended): when handle_defaults returns, the result is the prefix of *)
(* args of length N-K if no optional slot is non-null and rightmost+1      *)
(* otherwise, and no OPTIONAL slot before the rightmost non-null optional  *)
(* slot is null in it; a required slot that was null on entry stays null.  *)
(***************************************************************************)
C1_PrefixLength ==
    (HdReturned /\ HdAligned) =>
        /\ hd_ret.len = HdExpectedLen
        /\ hd_ret.len <= HdN
        /\ HdSet # {} =>
              \A j \in 0..(HdRightmost - 1) :
                  /\ j \in HdOptional => HdSlice[j + 1] # Null
                  /\ j \notin HdOptional => HdSlice[j + 1] = hd_entry[j + 1]

\* A call returned with a gap backfilled and a required slot that is null.
C1_Witness ==
    /\ HdReturned /\ HdAligned
    /\ HdGaps # {}
    /\ \E j \in 0..(HdRequired - 1) : hd_entry[j + 1] = Null
    /\ hd_ret.len = HdRightmost + 1

(***************************************************************************)
(* C2: if an optional slot is null, its default is null too and an         *)
(* optional slot to its right is non-null, the call aborts with the        *)
(* missing-default panic; it never returns a slice.                        *)
(***************************************************************************)
HdUnfillable == {i \in HdGaps : HdDefaultOf(i) = Null}

C2_MissingDefaultAborts ==
    (HdDone /\ HdAligned /\ HdUnfillable # {}) =>
        /\ HdAborted
        /\ hd_ret.panic = PanicMissingDefault
        /\ hd_ret.idx \in HdUnfillable

\* A call with an unfillable gap, which aborted.
C2_Witness ==
    /\ HdAligned /\ HdUnfillable # {} /\ HdAborted
    /\ \E i \in HdGaps : HdDefaultOf(i) # Null

(***************************************************************************)
(* C3: when no optional slot is non-null (K = 0 included) the call returns *)
(* exactly args[0 .. N-K], every returned slot equal to its input; for     *)
(* K = 0 that is the whole of args.                                        *)
(***************************************************************************)
C3_NoneSetReturnsRequired ==
    (HdDone /\ HdAligned /\ HdSet = {}) =>
        /\ HdReturned
        /\ hd_ret.len = HdRequired
        /\ HdSlice = SubSeq(hd_entry, 1, HdRequired)
        /\ \A i \in 1..Len(HdSlice) : HdSlice[i] = hd_entry[i]
        /\ HdK = 0 => HdSlice = hd_entry

\* A call with required and optional slots, all optional ones null, returned.
C3_Witness ==
    /\ HdReturned /\ HdAligned /\ HdSet = {}
    /\ HdK >= 2 /\ HdRequired >= 1
    /\ hd_ret.len = HdRequired

(***************************************************************************)
(* C4 (as stated): for K >= 1, when the only non-null optional slot is the *)
(* last slot of args, the call returns all N slots and substitutes no      *)
(* default into any slot (stated for the calls that return).               *)
(***************************************************************************)
HdOnlyLastSet == HdAligned /\ HdK >= 1 /\ HdSet = {HdN - 1}

C4_AsStated ==
    (HdReturned /\ HdOnlyLastSet) =>
        /\ hd_ret.len = HdN
        /\ hd_args = hd_entry

(***************************************************************************)
(* C4 (amended): for K >= 1, when the only non-null optional slot is the   *)
(* last slot of args, a call that returns returns all N slots; no default  *)
(* is substituted when K = 1, and when K > 1 each of the other K-1         *)
(* optional slots is backfilled with its default (the call aborts instead  *)
(* when one of those defaults is null).                                    *)
(***************************************************************************)
C4_OnlyLastSet ==
    (HdDone /\ HdOnlyLastSet) =>
        /\ HdReturned => hd_ret.len = HdN
        /\ HdK = 1 => (HdReturned /\ hd_args = hd_entry)
        /\ HdReturned =>
              \A i \in HdOptional \ {HdN - 1} :
                  hd_args[i + 1] = HdDefaultOf(i) /\ hd_args[i + 1] # Null
        /\ HdAborted <=> \E i \in HdOptional \ {HdN - 1} : HdDefaultOf(i) = Null
        /\ \A i \in 0..(HdRequired - 1) : hd_args[i + 1] = hd_entry[i + 1]

\* Only the last of three optional slots set: all N slots returned, two backfilled.
C4_Witness ==
    /\ HdReturned /\ HdOnlyLastSet /\ HdK = 3
    /\ hd_ret.len = HdN
    /\ hd_args # hd_entry

(***************************************************************************)
(* C5: whenever the call returns, every optional slot that was null on     *)
(* entry and lies left of the rightmost non-null optional slot holds, in   *)
(* the returned slice, exactly its aligned default, which is not null.     *)
(***************************************************************************)
C5_GapsHoldDefaults ==
    (HdReturned /\ HdAligned) =>
        \A i \in HdGaps :
            /\ i < hd_ret.len
            /\ HdSlice[i + 1] = HdDefaultOf(i)
            /\ HdSlice[i + 1] # Null

\* A returned call with two gaps whose defaults differ.
C5_Witness ==
    /\ HdReturned /\ HdAligned
    /\ \E i, j \in HdGaps : HdDefaultOf(i) # HdDefaultOf(j)

(***************************************************************************)
(* C6: the call never changes a required slot (even a null one with        *)
(* non-null optional slots to its right) nor a slot that was non-null on   *)
(* entry; only optional slots that were null on entry and lie left of the  *)
(* rightmost non-null optional slot may be overwritten.                    *)
(***************************************************************************)
C6_Frame ==
    HdDone =>
        /\ Len(hd_args) = HdN
        /\ \A i \in 0..(HdN - 1) :
              hd_args[i + 1] # hd_entry[i + 1] => (HdAligned /\ i \in HdGaps)

\* A call that overwrote a gap and left a null required slot alone.
C6_Witness ==
    /\ HdDone /\ HdAligned
    /\ \E i \in HdGaps : hd_args[i + 1] # hd_entry[i + 1]
    /\ \E j \in 0..(HdRequired - 1) : hd_entry[j + 1] = Null /\ hd_args[j + 1] = Null
    /\ \E j \in HdOptional \ HdGaps : hd_entry[j + 1] = Null /\ hd_args[j + 1] = Null

(***************************************************************************)
(* Vocabulary of the client claims, stated on the last method call.        *)
(***************************************************************************)
\* The number of required parameters of the RPC method a client method calls.
RequiredParams(method) ==
    CASE method = "send_to_address" -> 2
      [] method = "submit_package"  -> 1

\* The client methods whose RPC method has optional trailing parameters.
MethodsWithOptionals == {"send_to_address", "submit_package"}

(***************************************************************************)
(* C7: a call of a client method whose RPC method has optional trailing    *)
(* parameters, made with all of them unset, sends a params array holding   *)
(* only the required parameters and no JSON null.                          *)
(***************************************************************************)
C7_UnsetOptionalsOmitted ==
    (cl_last.method \in MethodsWithOptionals /\ cl_last.unset) =>
        \A i \in 1..Len(cl_last.requests) :
            LET params == cl_last.requests[i].params
            IN  /\ Len(params) = RequiredParams(cl_last.method)
                /\ \A j \in 1..Len(params) : params[j] # Null

(***************************************************************************)
(* C8: check_expected_server_version returns Ok exactly when the version   *)
(* the server reported is in the client's expected versions; when the      *)
(* reported version is not, it returns the version-mismatch error holding  *)
(* the reported version and the complete expected list.                    *)
(***************************************************************************)
C8_Reported == cl_last.reply.kind = "result"

C8_ExpectedSet ==
    LET e == ExpectedVersions(cl_client.build) IN {e[i] : i \in 1..Len(e)}

C8_VersionCheck ==
    cl_last.method = "check_expected_server_version" =>
        /\ cl_last.result.kind = "Ok" <=>
              (C8_Reported /\ cl_last.reply.version \in C8_ExpectedSet)
        /\ (C8_Reported /\ cl_last.reply.version \notin C8_ExpectedSet) =>
              /\ cl_last.result.kind = "ServerVersion"
              /\ cl_last.result.got = cl_last.reply.version
              /\ cl_last.result.expected = ExpectedVersions(cl_client.build)

\* The v28 client checked a server reporting 270100.
C8_Witness ==
    /\ cl_last.method = "check_expected_server_version"
    /\ cl_client.build = "v28"
    /\ cl_last.reply = [kind |-> "result", version |-> 270100]
    /\ cl_last.result = ErrServerVersion(270100, <<280000>>)

(***************************************************************************)
(* C9: the version check keeps no state: no step changes the client, and   *)
(* over any number of checks on one client the outcome is a function of    *)
(* what the server answered during that check, so checks that got the      *)
(* same answer returned the same outcome.                                  *)
(***************************************************************************)
C9_OutcomeDependsOnAnswer ==
    \A c, d \in cl_checks : c.reply = d.reply => c.outcome = d.outcome

CkFirstLF ==
    LET b == au_fs.bytes
    IN  IF \E i \in 1..Len(b) : b[i] = "LF"
        THEN CHOOSE i \in 1..Len(b) : b[i] = "LF" /\ \A j \in 1..(i - 1) : b[j] # "LF"
        ELSE Len(b) + 1

\* The bytes before the first newline.
CkBeforeLF == SubSeq(au_fs.bytes, 1, CkFirstLF - 1)

\* The first line: the bytes before the line terminator, "\n" or "\r\n".
CkFirstLine ==
    LET raw == CkBeforeLF
        n   == Len(raw)
    IN  IF CkFirstLF <= Len(au_fs.bytes) /\ n > 0 /\ raw[n] = "CR"
        THEN SubSeq(raw, 1, n - 1)
        ELSE raw

\* The first line is text (valid UTF-8).
CkIsText == \A i \in 1..Len(CkBeforeLF) : CkBeforeLF[i] # "BAD"

\* A cookie credential was requested and the cookie file could be opened.
CkRead == au_res.op # "none" /\ au_auth.kind = "CookieFile" /\ au_fs.exists

(***************************************************************************)
(* C10: for a cookie file whose first line is text containing a ':', the   *)
(* credential comes from the first line alone, split at its first ':':     *)
(* the user is the text before it (so it holds no ':'), the password is    *)
(* everything after it, further ':' included; the rest of the file has no  *)
(* influence.                                                              *)
(***************************************************************************)
C10_SplitAtFirstColon ==
    (CkRead /\ CkIsText /\ \E i \in 1..Len(CkFirstLine) : CkFirstLine[i] = ":") =>
        /\ au_res.r.kind = "Ok"
        /\ au_res.r.user.some /\ au_res.r.pass.some
        /\ au_res.r.user.s \o <<":">> \o au_res.r.pass.s = CkFirstLine
        /\ \A i \in 1..Len(au_res.r.user.s) : au_res.r.user.s[i] # ":"

\* The cookie "a:s:" followed by nothing: user "a", password "s:"; and the
\* client was built from it.
C10_Witness ==
    /\ CkRead /\ au_res.op = "new_with_auth"
    /\ au_fs.bytes = <<"a", ":", "s", ":">>
    /\ au_res.r = AuthOk(SomeStr(<<"a">>), SomeStr(<<"s", ":">>))

(***************************************************************************)
(* C11: a cookie file whose first line is text without a ':' and a cookie  *)
(* file that is empty both yield the invalid-cookie-file error; no user    *)
(* and no password is produced.                                            *)
(***************************************************************************)
CkNoColon == \A i \in 1..Len(CkFirstLine) : CkFirstLine[i] # ":"

C11_NoColonIsInvalidCookieFile ==
    (CkRead /\ CkIsText /\ CkNoColon) =>
        /\ au_res.r.kind = "InvalidCookieFile"
        /\ ~au_res.r.user.some
        /\ ~au_res.r.pass.some

\* The first line "a" has no ':' (the second line has one): invalid cookie file.
C11_Witness ==
    /\ CkRead /\ au_res.op = "new_with_auth"
    /\ au_fs.bytes = <<"a", "LF", ":", "s">>
    /\ au_res.r = AuthErr("InvalidCookieFile")

(***************************************************************************)
(* C12: a cookie file that is missing or cannot be opened yields the same  *)
(* error kind as a malformed cookie file (the invalid-cookie-file error).  *)
(***************************************************************************)
C12_MissingFileIsCredentialFailure ==
    (au_res.op # "none" /\ au_auth.kind = "CookieFile" /\ ~au_fs.exists) =>
        au_res.r.kind = "InvalidCookieFile"

(***************************************************************************)
(* C13: the cookie file is read exactly once, when the client is built     *)
(* with a cookie credential: nothing is read before the build, a built     *)
(* cookie client has opened the file once however many requests it sent,   *)
(* and every request carries the credentials read at build time, whatever  *)
(* has happened to the file since.                                         *)
(***************************************************************************)
C13_Built == au_res.op = "new_with_auth" /\ au_res.r.kind = "Ok"

U32Max == <<0, 0, LimbBase - 1, LimbBase - 1>>

RECURSIVE LexGreater(_, _)
LexGreater(a, b) ==
    IF a = <<>> THEN FALSE
    ELSE IF Head(a) # Head(b) THEN Head(a) > Head(b)
    ELSE LexGreater(Tail(a), Tail(b))

\* v < 0 and v > u32::MAX for an i64 v.
I64BelowZero(v) == LexGreater(v, <<LimbBase \div 2 - 1, LimbBase - 1, LimbBase - 1, LimbBase - 1>>)
I64AboveU32Max(v) == ~I64BelowZero(v) /\ LexGreater(v, U32Max)

ToU32Done == cv_in.op = "to_u32" /\ cv_out # NotConverted

C14_ToU32Checked ==
    ToU32Done =>
        LET v == cv_in.value  f == cv_in.field
        IN  /\ I64BelowZero(v) => cv_out = NumericError("Negative", v, f)
            /\ I64AboveU32Max(v) => cv_out = NumericError("Overflow", v, f)
            /\ (~I64BelowZero(v) /\ ~I64AboveU32Max(v)) =>
                  /\ cv_out.kind = "Ok"
                  /\ <<0, 0>> \o cv_out.u32 = v

\* 2^32 (one above u32::MAX) is an Overflow, carrying the value and the field.
C14_Witness ==
    /\ ToU32Done
    /\ cv_in.value = <<0, 1, 0, 0>>
    /\ cv_out = NumericError("Overflow", <<0, 1, 0, 0>>, cv_in.field)

(***************************************************************************)
(* Vocabulary of the conversion claims, stated on the wire value handed    *)
(* to a method (cv_in) and on what came back (cv_out).                     *)
(***************************************************************************)
CvMethods == {"getblock", "gettransaction", "gettxout", "getchaintips", "getblockchaininfo"}
CvConverted == cv_in.op \in CvMethods /\ cv_out # NotConverted
CvSteps == StepsOf(cv_in.op)
CvIndex(field) == CHOOSE i \in 1..Len(CvSteps) : CvSteps[i].field = field

\* The i-th wire field is one its step decodes and converts.
CvFieldGood(i) ==
    /\ Fits(CvSteps[i], cv_in.wire[i])
    /\ ConvertField(CvSteps[i], cv_in.wire[i]).ok

(***************************************************************************)
(* C15: for every method whose result has a confirmations field, a wire    *)
(* confirmations of -1 (every other field being convertible) is converted  *)
(* to a model confirmations of -1 or to an absent value, never to 0 and    *)
(* never to a wrapped unsigned value.                                      *)
(***************************************************************************)
MethodsWithConfirmations == {"getblock", "gettxout", "gettransaction"}

C15_MinusOneOnWire ==
    /\ CvConverted
    /\ cv_in.op \in MethodsWithConfirmations
    /\ cv_in.wire[CvIndex("confirmations")] = WInt(MinusOne)
    /\ \A i \in 1..Len(CvSteps) : i # CvIndex("confirmations") => CvFieldGood(i)

C15_MinusOnePreserved ==
    C15_MinusOneOnWire =>
        /\ cv_out.kind = "Ok"
        /\ cv_out.model[CvIndex("confirmations")] \in {WInt(MinusOne), Absent}

(***************************************************************************)
(* C16: when several fields of a decoded wire value are unconvertible, the *)
(* conversion returns exactly one error, the one of the earliest failing   *)
(* step in the evaluation order of the converter, and no step after it     *)
(* runs; with no failing step the conversion succeeds.                     *)
(***************************************************************************)
CvDecoded == CvConverted /\ \A i \in 1..Len(CvSteps) : Fits(CvSteps[i], cv_in.wire[i])

CvFailing == {i \in 1..Len(CvSteps) : ~ConvertField(CvSteps[i], cv_in.wire[i]).ok}

CvFirstFailing == CHOOSE i \in CvFailing : \A j \in CvFailing : i <= j

C16_FirstFailureWins ==
    CvDecoded =>
        IF CvFailing = {}
        THEN cv_out.kind = "Ok" /\ cv_out.evaluated = Len(CvSteps)
        ELSE /\ cv_out.kind = "Conversion"
             /\ cv_out.field = CvSteps[CvFirstFailing].field
             /\ cv_out.variant = CvSteps[CvFirstFailing].variant
             /\ cv_out.evaluated = CvFirstFailing
             /\ cv_out.model = <<>>

\* getblock with a bad hash, a bad bits and a negative size: the error is Hash.
C16_Witness ==
    /\ CvDecoded
    /\ cv_in.op = "getblock"
    /\ {CvIndex("hash"), CvIndex("bits"), CvIndex("size")} \subseteq CvFailing
    /\ cv_out.kind = "Conversion"
    /\ cv_out.variant = "Hash"
    /\ cv_out.evaluated = 1

(***************************************************************************)
(* C17: no conversion function and no client helper that processes a       *)
(* server response panics on a server-supplied value: the result is Ok or  *)
(* a typed Err.                                                            *)
(***************************************************************************)
C17_NoPanic == cv_out.kind # "Panic"

(***************************************************************************)
(* C18: a wire string outside the known set of an enumerated field         *)
(* (chain-tip status, BIP-9 softfork status, transaction-detail category)  *)
(* is rejected while the response is decoded: the call returns the decode  *)
(* error (a serde error) and no model value; the string is never mapped    *)
(* to a default or fallback variant.  As stated, the failure would be a    *)
(* Conversion failure.                                                     *)
(***************************************************************************)
CvEnumFields == {i \in 1..Len(CvSteps) : CvSteps[i].conv \in {"variant", "drop"}}

CvUnknownEnum ==
    /\ CvConverted
    /\ \E i \in CvEnumFields : cv_in.wire[i].v[1] \notin EnumVariants(CvSteps[i].ty)

C19_Response ==
    /\ cv_in.op = "gettxout"
    /\ cv_out # NotConverted
    /\ cv_in.wire[CvIndex("best_block")] = WStr([i \in 1..(2 * HashLen) |-> "0"])
    /\ cv_in.wire[CvIndex("value")] = WFloat(1, 5, 4)
    /\ cv_in.wire[CvIndex("confirmations")] = WInt(MinusOne)
    /\ cv_in.wire[CvIndex("script_pubkey.hex")] = WOpaque(TRUE)
    /\ cv_in.wire[CvIndex("script_pubkey.address")] = WOpaque(TRUE)

C20_RoundTrip ==
    /\ (cv_in.op = "get_block" /\ cv_out # NotConverted) =>
          ParseHash(cv_out.params[1].v) = FieldOk(MHash(cv_in.hash))
    /\ (cv_in.op = "getbestblockhash" /\ cv_out # NotConverted) =>
          \A h \in Hashes :
              cv_in.wire[1] = WStr(DisplayHash(h)) =>
                  cv_out.kind = "Ok" /\ cv_out.model = <<MHash(h)>>

\* get_block of a hash whose bytes differ: the request carries them last
\* byte first, 0x01 0xab as "ab01".
C20_Witness ==
    /\ cv_in.op = "get_block"
    /\ cv_out # NotConverted
    /\ cv_in.hash[1] = 1
    /\ cv_in.hash[HashLen] = 171
    /\ cv_out.params[1].v[1] = "a"
    /\ cv_out.params[1].v[2] = "b"
    /\ cv_out.params[1].v[2 * HashLen] = "1"

(***************************************************************************)
(* C21: an invocation of call runs encode, one transport round trip and    *)
(* decode in that order; it sends at most one request; the first stage     *)
(* that fails ends the invocation with that failure, with no retry and no  *)
(* further request.                                                        *)
(***************************************************************************)
CaStages == <<"encode", "request", "decode">>

CaRequests == Cardinality({i \in 1..Len(ca_log) : ca_log[i] = "request"})

\* How far an invocation gets, and what it returns, from what its stages meet.
CaExpectedLen ==
    CASE ca_call.encode # "ok" -> 1
      [] ca_call.transport # "result" -> 2
      [] OTHER -> 3

CaExpectedFailure ==
    CASE ca_call.encode # "ok" -> "encode"
      [] ca_call.transport = "transport_error" -> "transport"
      [] ca_call.transport = "rpc_error" -> "protocol"
      [] ca_call.decode # "ok" -> "decode"
      [] OTHER -> ""

C21_OneRequestFirstFailure ==
    /\ CaRequests <= 1
    /\ Len(ca_log) <= Len(CaStages)
    /\ ca_log = SubSeq(CaStages, 1, Len(ca_log))
    /\ ca_pc # "done" => ca_result = NoReturn
    /\ ca_pc = "done" =>
          /\ Len(ca_log) = CaExpectedLen
          /\ ca_result.failure = CaExpectedFailure
          /\ ca_result.kind = IF CaExpectedFailure = "" THEN "Ok" ELSE "Err"

\* The transport fails: encode and one request have run, decode has not, and
\* the transport failure is what the caller gets.
C21_Witness ==
    /\ ca_pc = "done"
    /\ ca_call.transport = "transport_error"
    /\ ca_call.decode = "err"
    /\ ca_log = <<"encode", "request">>
    /\ ca_result = CallErr("transport", "JsonRpc")

(***************************************************************************)
(* C22: the failure kinds are reported through pairwise distinct variants  *)
(* of the caller-facing Error: of the failures call has returned, no two   *)
(* of different kinds carry the same variant.                              *)
(***************************************************************************)
C22_KindsHaveDistinctVariants ==
    \A a \in ca_seen : \A b \in ca_seen :
        a.failure # b.failure => a.variant # b.variant

(***************************************************************************)
(* C23: every conversion failure carries the underlying parse error of the *)
(* failing field; it names the wire field when the result is a struct      *)
(* (through the variant of the method's error enum, or the field member of *)
(* NumericError), and names no field when the result is a single value     *)
(* (getbestblockhash, getbalance), whose into_model returns the parse      *)
(* error itself.  C23_FieldAndParseError is the requirement: a field name  *)
(* and a parse error in every failure.                                     *)
(***************************************************************************)
CvSingleValue == {"getbestblockhash", "getbalance"}

CvFailed ==
    /\ cv_in.op \in CvMethods \cup CvSingleValue
    /\ cv_out # NotConverted
    /\ cv_out.kind = "Conversion"

C23_FieldAndParseError == CvFailed => (cv_out.field # "" /\ cv_out.source # "")

(***************************************************************************)
(* C24: the conversion of relay_fee and incremental_fee is selected per    *)
(* version: a version's conversion is the formula of the unit the version  *)
(* reports (bitcoin per 1000 raw bytes for v17, per 1000 virtual bytes for *)
(* v22 and v28), and versions whose units differ share no formula.         *)
(***************************************************************************)
CvFeeUnit(op) ==
    IF op \in {"v17_getnetworkinfo", "v17_try_from_getnetworkinfo"} THEN "kB" ELSE "kvB"

\* The unit a formula takes its argument in: btc_per_kb goes through
\* from_sat_per_vb, the virtual byte.
CvFormulaUnit(conv) ==
    IF conv = "fee_rate_from_btc_per_kb" THEN "kB" ELSE "kvB"

CvFormula(op) == StepsOf(op)[1].conv

C24_FormulaPerUnit ==
    (cv_in.op \in NetworkInfoOps /\ cv_out # NotConverted) =>
        /\ CvFormulaUnit(CvFormula(cv_in.op)) = CvFeeUnit(cv_in.op)
        /\ \A other \in NetworkInfoOps :
              CvFeeUnit(other) # CvFeeUnit(cv_in.op) =>
                  /\ CvFormula(other) # CvFormula(cv_in.op)
                  /\ (cv_out.kind = "Ok" /\ cv_out.model[1].v[1] > 0) =>
                        IntoModel(StepsOf(other), cv_in.wire) # cv_out

(***************************************************************************)
(* C29: a relay_fee or incremental_fee of a whole number s of satoshi per  *)
(* 1000 bytes converts, and to the rate of exactly s satoshi per 1000      *)
(* virtual bytes (s / 4 per 1000 weight units), whether or not s is a      *)
(* multiple of 1000.                                                       *)
(***************************************************************************)
CvWholeSat(w) == w.v[1] = 1 /\ w.v[3] = BtcPrecision

C29_WholeSatExact ==
    (/\ cv_in.op \in {"v17_getnetworkinfo", "v28_getnetworkinfo"}
     /\ cv_out # NotConverted
     /\ \A i \in 1..2 : CvWholeSat(cv_in.wire[i])) =>
        /\ cv_out.kind = "Ok"
        /\ \A i \in 1..2 : cv_out.model[i].v[1] * WuPerVb = cv_in.wire[i].v[2]

(***************************************************************************)
(* C25: no successful conversion fills a model field with an invented      *)
(* value: every field of the model it returns is derived from a field the  *)
(* wire type has.                                                          *)
(***************************************************************************)
CvAllOps ==
    CvMethods \cup CvSingleValue \cup NetworkInfoOps \cup {"getblockheader_verbose"}
        \cup {"v17_try_from_sendtoaddress", "v19_try_from_getblockchaininfo"}

C25_NoInventedField ==
    (cv_in.op \in CvAllOps /\ cv_out # NotConverted /\ cv_out.kind = "Ok") =>
        \A i \in 1..Len(cv_out.model) : cv_in.wire[i] # NoField

(***************************************************************************)
(* C28: a successful conversion of a getblockchaininfo result keeps the    *)
(* softforks of the wire value: a softfork the server reported is in the   *)
(* model's softforks map.                                                  *)
(***************************************************************************)
CvSoftforksAt(op) ==
    CHOOSE i \in 1..Len(StepsOf(op)) : StepsOf(op)[i].conv \in {"drop", "softforks"}

C28_SoftforksPreserved ==
    (/\ cv_in.op \in {"getblockchaininfo", "v19_try_from_getblockchaininfo"}
     /\ cv_out # NotConverted
     /\ cv_out.kind = "Ok") =>
        LET i == CvSoftforksAt(cv_in.op)
        IN  cv_out.model[i] = MSoftforks(<<cv_in.wire[i].v[1]>>)

(***************************************************************************)
(* C27: in the conversion of a verbose getblockheader result, chain_work   *)
(* of the model is the number parsed from the wire's chain_work, and the   *)
(* ChainWork error is returned exactly when the wire's chain_work is not   *)
(* valid unprefixed hex (and no earlier field failed).                     *)
(***************************************************************************)
CvChainWork ==
    CHOOSE i \in 1..Len(GetBlockHeaderVerboseSteps) :
        GetBlockHeaderVerboseSteps[i].field = "chain_work"

CvChainWorkParsed == from_unprefixed_hex(cv_in.wire[CvChainWork].v, WorkDigits)

C27_ChainWorkFromItsField ==
    (cv_in.op = "getblockheader_verbose" /\ cv_out # NotConverted /\ cv_out.kind # "Json") =>
        /\ cv_out.kind = "Ok" =>
              /\ CvChainWorkParsed.ok
              /\ cv_out.model[CvChainWork] = CvChainWorkParsed.v
        /\ cv_out.variant = "ChainWork" => ~CvChainWorkParsed.ok
        /\ (~CvChainWorkParsed.ok /\ cv_out.evaluated >= CvChainWork) =>
              cv_out.variant = "ChainWork"

(***************************************************************************)
(* C26: under every set of version features exactly one Client export and  *)
(* exactly one VERSION constant are active, and with no feature or with    *)
(* all features they are those of the most recent version, v28 and "28.0". *)
(***************************************************************************)
FtBuilt == ft_build # NotBuilt

C26_ExactlyOneClient ==
    FtBuilt =>
        /\ Cardinality(ft_build) = 1
        /\ ft_features \in {{}, FeaturesOf(ft_crate)} =>
              \A item \in ft_build :
                  /\ item.client = "v28"
                  /\ ft_crate = "regtest" => item.version = "28.0"

(***************************************************************************)
(* C30: where a client method calls handle_defaults, defaults has one      *)
(* entry per optional parameter of the RPC, args has one slot per required *)
(* and per optional parameter, and the slots the defaults are aligned with *)
(* (the last Len(defaults) slots of args) are all optional ones.           *)
(***************************************************************************)
CkAlignedSlots(site) ==
    {i \in 1..Len(site.args) : i > Len(site.args) - Len(site.defaults)}

C30_DefaultsAlignOptionalSlots ==
    cl_last.method = "send_to_address" =>
        /\ Len(cl_last.site.defaults) = SendToAddressOptional
        /\ Len(cl_last.site.args) = SendToAddressRequired + SendToAddressOptional
        /\ \A i \in CkAlignedSlots(cl_last.site) : i > SendToAddressRequired

====
